---------------------------- MODULE Spec2Model ----------------------------
(***************************************************************************)
(* Model of the output-format layer of pyocr (builders.py): the Box and    *)
(* LineBox value types, the incremental builders, the two hOCR parsers and *)
(* the read_file / write_file pairs of WordBoxBuilder and LineBoxBuilder.  *)
(*                                                                         *)
(* Python strings are modelled as sequences of one-character strings, so   *)
(* that split, strip, startswith, int() and "%d" are computed, not assumed.*)
(* Python None is the value None below.  An exception raised by a handler  *)
(* is recorded in the err field of the parser / result that raised it.     *)
(*                                                                         *)
(* Six specifications share the variables:                                 *)
(*   SpecBox        Box / LineBox values are drawn and compared, hashed;   *)
(*   SpecBuilder    a LineBoxBuilder or a TextBuilder is driven through    *)
(*                  start_line / add_word / end_line / get_output;         *)
(*   SpecFile       an output file is written, by an OCR engine or by      *)
(*                  write_file, and read by the builders;                  *)
(*   SpecParse      a title, a line of text or a document of nested spans  *)
(*                  is handed to a parsing function;                       *)
(*   SpecEngine     image_to_string of tesseract and of cuneiform runs the *)
(*                  engine and reads what it left;                         *)
(*   SpecInstances  two builder instances are constructed and called in    *)
(*                  any order, their lists kept by identity.               *)
(***************************************************************************)
EXTENDS Integers, Sequences, FiniteSets, TLC

VARIABLES
    boxA, boxB, boxC,   \* three Box values under comparison
    strhash,            \* the interpreter's hash() over content strings
    cmpres,             \* results of the comparison operators, or None
    builder,            \* the builder instance driven incrementally
    call,               \* the last incremental call made on builder
    ret,                \* what that call returned
    ncalls,             \* number of incremental calls made so far
    line_ended,         \* end_line was called after the last start_line
    started,            \* per start_line call made on builder, the words the
                        \* add_word calls that returned have added since
    pieces,             \* what the OCR engine wrote to the output file
    doc,                \* the output file, as the events html.parser delivers
    written,            \* the call of write_file that wrote doc, or None
    read_w,             \* what WordBoxBuilder.read_file did on doc, or None
    read_l,             \* what LineBoxBuilder.read_file did on doc, or None
    plain,              \* the characters of the output file when it is a
                        \* plain text file, or NoneText
    read_t,             \* what TextBuilder.read_file did on plain, or None
    read_c,             \* what CharBoxBuilder.read_file did on plain, or None
    parse_in,           \* the input handed to a parsing function
    parse_out,          \* what the parsing function returned, or None
    run,                \* the image_to_string call in progress, or None
    heap,               \* the list objects of the interpreter, by identity
    objs,               \* the builder instances constructed so far
    trace,              \* the mutating calls made on the instances, in order
    out                 \* the last call made on an instance, or None

boxvars == <<boxA, boxB, boxC, strhash, cmpres>>

buildervars == <<builder, call, ret, ncalls, line_ended, started>>

filevars == <<pieces, doc, written, read_w, read_l, plain, read_t, read_c>>

parsevars == <<parse_in, parse_out>>

enginevars == <<run>>

instvars == <<heap, objs, trace, out>>

vars == <<boxvars, buildervars, filevars, parsevars, enginevars, instvars>>

\* None, where a record (an object) is expected
None == [py_none |-> TRUE]

\* None, where a position tuple is expected
NonePosition == <<>>

\* None, where a str is expected (no str holds a four-letter character)
NoneText == <<"None">>

(***************************************************************************)
(* Bounds                                                                  *)
(***************************************************************************)
MaxCoord == 1
MaxStrHash == 1
MaxCalls == 6
MaxPieces == 2
MaxBoxes == 2
MaxLines == 2
MaxTextLines == 2

(***************************************************************************)
(* Python str primitives on sequences of characters                        *)
(***************************************************************************)
Whitespace == {" ", "\n", "\t"}

DigitChars == <<"0", "1", "2", "3", "4", "5", "6", "7", "8", "9">>

RECURSIVE LStrip(_)
LStrip(s) ==
    IF s # <<>> /\ Head(s) \in Whitespace THEN LStrip(Tail(s)) ELSE s

RECURSIVE RStrip(_)
RStrip(s) ==
    IF s # <<>> /\ s[Len(s)] \in Whitespace
    THEN RStrip(SubSeq(s, 1, Len(s) - 1))
    ELSE s

\* str.strip()
Strip(s) == RStrip(LStrip(s))

\* str.startswith(prefix)
StartsWith(s, prefix) ==
    /\ Len(s) >= Len(prefix)
    /\ SubSeq(s, 1, Len(prefix)) = prefix

\* index of the first occurrence of sep in s at or after i, 0 when absent
RECURSIVE FindFrom(_, _, _)
FindFrom(s, sep, i) ==
    IF i + Len(sep) - 1 > Len(s) THEN 0
    ELSE IF SubSeq(s, i, i + Len(sep) - 1) = sep THEN i
    ELSE FindFrom(s, sep, i + 1)

\* str.split(sep) with an explicit, non-empty separator
RECURSIVE Split(_, _)
Split(s, sep) ==
    LET i == FindFrom(s, sep, 1)
    IN  IF i = 0 THEN <<s>>
        ELSE <<SubSeq(s, 1, i - 1)>> \o Split(SubSeq(s, i + Len(sep), Len(s)), sep)

RECURSIVE FormatNat(_)
FormatNat(n) ==
    IF n < 10 THEN <<DigitChars[n + 1]>>
    ELSE FormatNat(n \div 10) \o <<DigitChars[(n % 10) + 1]>>

\* "%d" % n
FormatInt(n) == IF n < 0 THEN <<"-">> \o FormatNat(0 - n) ELSE FormatNat(n)

IsDigit(c) == \E d \in 1..10 : DigitChars[d] = c

DigitVal(c) == (CHOOSE d \in 1..10 : DigitChars[d] = c) - 1

RECURSIVE NatVal(_, _)
NatVal(s, acc) ==
    IF s = <<>> THEN acc ELSE NatVal(Tail(s), 10 * acc + DigitVal(Head(s)))

\* int(s): surrounding whitespace and one sign are accepted; anything else
\* raises ValueError (ok = FALSE)
ParseInt(s) ==
    LET t == Strip(s)
        signed == t # <<>> /\ Head(t) \in {"-", "+"}
        d == IF signed THEN Tail(t) ELSE t
    IN  IF d = <<>> \/ \E i \in 1..Len(d) : ~IsDigit(d[i])
        THEN [ok |-> FALSE, val |-> 0]
        ELSE [ok |-> TRUE,
              val |-> IF signed /\ Head(t) = "-" THEN 0 - NatVal(d, 0)
                      ELSE NatVal(d, 0)]

(***************************************************************************)
(* Box and LineBox                                                         *)
(***************************************************************************)
Box(content, position, confidence) ==
    [content |-> content, position |-> position, confidence |-> confidence]

LineBox(word_boxes, position) ==
    [word_boxes |-> word_boxes, position |-> position]

\* LineBox.content
RECURSIVE JoinWithTrailingSpace(_)
JoinWithTrailingSpace(boxes) ==
    IF boxes = <<>> THEN <<>>
    ELSE Head(boxes).content \o <<" ">> \o JoinWithTrailingSpace(Tail(boxes))

\* LineBox.content without the final strip()
LineBox_content_unstripped(line) == JoinWithTrailingSpace(line.word_boxes)

LineBox_content(line) == Strip(JoinWithTrailingSpace(line.word_boxes))

\* the for loop of __box_cmp over its four (x, y) pairs
RECURSIVE CmpPairs(_)
CmpPairs(pairs) ==
    IF pairs = <<>> THEN 0
    ELSE IF Head(pairs)[1] < Head(pairs)[2] THEN -1
    ELSE IF Head(pairs)[1] > Head(pairs)[2] THEN 1
    ELSE CmpPairs(Tail(pairs))

Box_cmp_swapped_corner(self, other) ==
    IF other = None \/ other.position = NonePosition THEN -1
    ELSE CmpPairs(<< <<self.position[1][2], other.position[1][2]>>,
                     <<self.position[2][2], other.position[1][2]>>,
                     <<self.position[1][1], other.position[1][1]>>,
                     <<self.position[2][1], other.position[2][1]>> >>)

\* __box_cmp with the x coordinates compared before the y coordinates
Box_cmp_x_first(self, other) ==
    IF other = None \/ other.position = NonePosition THEN -1
    ELSE CmpPairs(<< <<self.position[1][1], other.position[1][1]>>,
                     <<self.position[2][1], other.position[2][1]>>,
                     <<self.position[1][2], other.position[1][2]>>,
                     <<self.position[2][2], other.position[2][2]>> >>)

\* Box.__box_cmp; position[i][j] of the source is position[i+1][j+1] here
Box_cmp(self, other) ==
    IF other = None \/ other.position = NonePosition THEN -1
    ELSE CmpPairs(<< <<self.position[1][2], other.position[1][2]>>,
                     <<self.position[2][2], other.position[2][2]>>,
                     <<self.position[1][1], other.position[1][1]>>,
                     <<self.position[2][1], other.position[2][1]>> >>)

Box_lt(self, other) == Box_cmp(self, other) < 0
Box_gt(self, other) == Box_cmp(self, other) > 0
Box_eq(self, other) == Box_cmp(self, other) = 0

\* LineBox.__box_cmp
LineBox_cmp(self, other) ==
    IF other = None \/ other.position = NonePosition THEN -1
    ELSE CmpPairs(<< <<self.position[1][2], other.position[1][2]>>,
                     <<self.position[2][2], other.position[2][2]>>,
                     <<self.position[1][1], other.position[1][1]>>,
                     <<self.position[2][1], other.position[2][1]>> >>)

LineBox_lt(self, other) == LineBox_cmp(self, other) < 0
LineBox_gt(self, other) == LineBox_cmp(self, other) > 0
LineBox_eq(self, other) == LineBox_cmp(self, other) = 0

\* bitwise exclusive or of two naturals
RECURSIVE Xor(_, _)
Xor(a, b) ==
    IF a = 0 THEN b
    ELSE IF b = 0 THEN a
    ELSE 2 * Xor(a \div 2, b \div 2) + ((a + b) % 2)

\* the position_hash accumulated by both __hash__ methods
PositionHash(position) ==
      (position[1][1] % 256)
    + (position[1][2] % 256) * 256
    + (position[2][1] % 256) * 65536
    + (position[2][2] % 256) * 16777216

\* Box.__hash__
Box_hash(self) ==
    Xor(Xor(PositionHash(self.position), strhash[self.content]),
        strhash[self.content])

\* LineBox.__hash__
LineBox_hash(self) ==
    Xor(PositionHash(self.position), strhash[LineBox_content(self)])

(***************************************************************************)
(* Value-type specification: three boxes are drawn, the comparison         *)
(* operators and the hashes are evaluated on them.                         *)
(***************************************************************************)
Coords == 0..MaxCoord

Positions ==
    {<< <<x0, y0>>, <<x1, y1>> >> :
        x0 \in Coords, y0 \in Coords, x1 \in Coords, y1 \in Coords}

BoxPositions == {p \in Positions : p[1][1] <= p[2][1] /\ p[1][2] <= p[2][2]}

Words == {<<"a">>, <<"b">>}

\* a line holding the single word box b, at the position of b
LineOf(b) == LineBox(<<b>>, b.position)

BoxIdle ==
    /\ boxA = None /\ boxB = None /\ boxC = None
    /\ strhash = None /\ cmpres = None

BuilderIdle ==
    /\ builder = None /\ call = None /\ ret = None
    /\ ncalls = 0 /\ line_ended = FALSE /\ started = <<>>

FileIdle ==
    /\ pieces = <<>> /\ doc = <<>> /\ written = None
    /\ read_w = None /\ read_l = None
    /\ plain = NoneText /\ read_t = None /\ read_c = None

ParseIdle == parse_in = None /\ parse_out = None

EngineIdle == run = None

InstIdle ==
    /\ heap = <<>> /\ objs = <<>> /\ trace = <<>> /\ out = None

InitBox ==
    /\ BuilderIdle
    /\ InstIdle
    /\ FileIdle
    /\ ParseIdle
    /\ EngineIdle
    /\ boxA \in {Box(c, p, 0) : c \in Words, p \in BoxPositions}
    /\ boxB \in {Box(c, p, 0) : c \in Words, p \in BoxPositions}
    /\ boxC \in {Box(<<"a">>, p, 0) : p \in BoxPositions}
    /\ strhash \in [Words -> 0..MaxStrHash]
    /\ cmpres = None

Compare ==
    /\ cmpres = None
    /\ cmpres' =
         [box_lt |-> [ab |-> Box_lt(boxA, boxB), ba |-> Box_lt(boxB, boxA),
                      bc |-> Box_lt(boxB, boxC), ac |-> Box_lt(boxA, boxC)],
          box_eq |-> [ab |-> Box_eq(boxA, boxB), ba |-> Box_eq(boxB, boxA)],
          box_cmp |-> [ab |-> Box_cmp(boxA, boxB), ba |-> Box_cmp(boxB, boxA)],
          line_cmp |-> [ab |-> LineBox_cmp(LineOf(boxA), LineOf(boxB)),
                        ba |-> LineBox_cmp(LineOf(boxB), LineOf(boxA))],
          box_hash |-> [a |-> Box_hash(boxA), b |-> Box_hash(boxB)],
          line_lt |-> [ab |-> LineBox_lt(LineOf(boxA), LineOf(boxB)),
                       ba |-> LineBox_lt(LineOf(boxB), LineOf(boxA)),
                       bc |-> LineBox_lt(LineOf(boxB), LineOf(boxC)),
                       ac |-> LineBox_lt(LineOf(boxA), LineOf(boxC))],
          line_eq |-> [ab |-> LineBox_eq(LineOf(boxA), LineOf(boxB)),
                       ba |-> LineBox_eq(LineOf(boxB), LineOf(boxA))],
          line_hash |-> [a |-> LineBox_hash(LineOf(boxA)),
                         b |-> LineBox_hash(LineOf(boxB))]]
    /\ UNCHANGED <<boxA, boxB, boxC, strhash,
                    instvars>>
    /\ UNCHANGED <<buildervars, filevars, parsevars, enginevars,
                    instvars>>

NextBox == Compare

SpecBox == InitBox /\ [][NextBox]_vars

(***************************************************************************)
(* Claims on the value types                                               *)
(***************************************************************************)
Compared == cmpres # None

\* the coordinates of a position in the order in which they decide:
\* top-left y, bottom-right y, top-left x, bottom-right x
SortKey(position) ==
    <<position[1][2], position[2][2], position[1][1], position[2][1]>>

\* k1 comes before k2 in the lexicographic order of two keys of four integers
LexLess(k1, k2) ==
    \E i \in 1..4 : k1[i] < k2[i] /\ \A j \in 1..(i - 1) : k1[j] = k2[j]

\* the sign of the lexicographic comparison of two keys
LexCmp(k1, k2) ==
    IF LexLess(k1, k2) THEN -1 ELSE IF LexLess(k2, k1) THEN 1 ELSE 0

\* C21: the comparison of two boxes, and of two line boxes, is the
\* lexicographic comparison of (top-left y, bottom-right y, top-left x,
\* bottom-right x), ascending: -1 when the first comes before, 1 when it
\* comes after, 0 when the four coordinates are equal.
C21_LexicographicByYThenX ==
    Compared =>
        LET ka == SortKey(boxA.position)
            kb == SortKey(boxB.position)
        IN  /\ cmpres.box_cmp.ab = LexCmp(ka, kb)
            /\ cmpres.box_cmp.ba = LexCmp(kb, ka)
            /\ cmpres.line_cmp.ab = LexCmp(ka, kb)
            /\ cmpres.line_cmp.ba = LexCmp(kb, ka)
            /\ cmpres.box_lt.ab <=> LexLess(ka, kb)
            /\ cmpres.line_lt.ab <=> LexLess(ka, kb)
            /\ cmpres.box_eq.ab <=> ka = kb
            /\ cmpres.line_eq.ab <=> ka = kb

\* reached: A is above B although A is to the right of B, so the y
\* coordinates decided against the x coordinates
C21_Witness ==
    /\ Compared
    /\ boxA.position[1][2] < boxB.position[1][2]
    /\ boxA.position[1][1] > boxB.position[1][1]
    /\ cmpres.box_cmp.ab = -1 /\ cmpres.box_cmp.ba = 1
    /\ cmpres.line_cmp.ab = -1

\* reached: the y coordinates of both corners are equal and the x
\* coordinate of the bottom-right corner alone decided
C21_WitnessLastCoordinate ==
    /\ Compared
    /\ boxA.position[1] = boxB.position[1]
    /\ boxA.position[2][2] = boxB.position[2][2]
    /\ boxA.position[2][1] < boxB.position[2][1]
    /\ cmpres.box_cmp.ab = -1

\* C4: the hash is consistent with equality: for two Box values, and for two
\* LineBox values, a == b implies hash(a) == hash(b).
C4_HashConsistentWithEq ==
    Compared =>
        /\ cmpres.box_eq.ab => cmpres.box_hash.a = cmpres.box_hash.b
        /\ cmpres.line_eq.ab => cmpres.line_hash.a = cmpres.line_hash.b

\* C5: two Box values compare equal if and only if they have the same
\* content and the same position.
C5_BoxEqIffContentAndPosition ==
    Compared =>
        (cmpres.box_eq.ab <=>
            (boxA.content = boxB.content /\ boxA.position = boxB.position))

ExactlyOne(p, q, r) ==
    \/ p /\ ~q /\ ~r
    \/ ~p /\ q /\ ~r
    \/ ~p /\ ~q /\ r

\* C6: on values with a position, < is transitive, exactly one of A < B,
\* A == B, B < A holds, and A == B holds if and only if neither A < B nor
\* B < A; for Box and for LineBox.
C6_StrictTotalOrder ==
    Compared =>
        /\ (cmpres.box_lt.ab /\ cmpres.box_lt.bc) => cmpres.box_lt.ac
        /\ ExactlyOne(cmpres.box_lt.ab, cmpres.box_eq.ab, cmpres.box_lt.ba)
        /\ cmpres.box_eq.ab <=> (~cmpres.box_lt.ab /\ ~cmpres.box_lt.ba)
        /\ (cmpres.line_lt.ab /\ cmpres.line_lt.bc) => cmpres.line_lt.ac
        /\ ExactlyOne(cmpres.line_lt.ab, cmpres.line_eq.ab, cmpres.line_lt.ba)
        /\ cmpres.line_eq.ab <=> (~cmpres.line_lt.ab /\ ~cmpres.line_lt.ba)

\* reached: three boxes in strictly ascending order, compared
C6_Witness ==
    /\ Compared
    /\ cmpres.box_lt.ab /\ cmpres.box_lt.bc
    /\ cmpres.line_lt.ab /\ cmpres.line_lt.bc

(***************************************************************************)
(* Incremental interface of LineBoxBuilder and TextBuilder                 *)
(***************************************************************************)
\* LineBoxBuilder.__init__ (the accumulator)
LineBoxBuilder_init == [kind |-> "LineBoxBuilder", lines |-> <<>>]

\* TextBuilder.__init__ (the accumulator)
TextBuilder_init == [kind |-> "TextBuilder", built_text |-> <<>>]

\* seq[-1] = v
SetLast(seq, v) == [seq EXCEPT ![Len(seq)] = v]

LineBoxBuilder_start_line_always(lines, box) ==
    Append(lines, LineBox(<<>>, box))

\* LineBoxBuilder.start_line: the new value of self.lines
LineBoxBuilder_start_line(lines, box) ==
    IF Len(lines) > 0 /\ LineBox_content(lines[Len(lines)]) = <<>>
    THEN lines
    ELSE Append(lines, LineBox(<<>>, box))

\* add_word that puts the word in the first line
LineBoxBuilder_add_word_first(lines, word, box, confidence) ==
    [lines EXCEPT ![1].word_boxes = Append(@, Box(word, box, confidence))]

\* LineBoxBuilder.add_word: the new value of self.lines (lines is not empty)
LineBoxBuilder_add_word(lines, word, box, confidence) ==
    SetLast(lines,
            [lines[Len(lines)] EXCEPT
                !.word_boxes = Append(@, Box(word, box, confidence))])

\* TextBuilder.start_line: the new value of self.built_text
TextBuilder_start_line(built_text, box) == Append(built_text, <<>>)

\* add_word that puts no space between the words
TextBuilder_add_word_unspaced(built_text, word, box, confidence) ==
    SetLast(built_text, built_text[Len(built_text)] \o word)

\* TextBuilder.add_word: the new value of self.built_text (not empty)
TextBuilder_add_word(built_text, word, box, confidence) ==
    LET last == built_text[Len(built_text)]
        spaced == IF last # <<>> THEN last \o <<" ">> ELSE last
    IN  SetLast(built_text, spaced \o word)

\* u"\n".join(built_text)
RECURSIVE JoinLines(_)
JoinLines(texts) ==
    IF texts = <<>> THEN <<>>
    ELSE IF Len(texts) = 1 THEN texts[1]
    ELSE texts[1] \o <<"\n">> \o JoinLines(Tail(texts))

\* values handed to the incremental interface
BuilderWords == {<<>>, <<"a">>, <<"b">>}

LinePositions == {<< <<0, 0>>, <<9, 1>> >>, << <<0, 2>>, <<9, 3>> >>}

WordPosition == << <<0, 0>>, <<1, 1>> >>

InitBuilder ==
    /\ BoxIdle
    /\ InstIdle
    /\ FileIdle
    /\ ParseIdle
    /\ EngineIdle
    /\ builder \in {LineBoxBuilder_init, TextBuilder_init}
    /\ call = None
    /\ ret = None
    /\ ncalls = 0
    /\ line_ended = FALSE
    /\ started = <<>>

Called(op, box, word) ==
    /\ ncalls < MaxCalls
    /\ ncalls' = ncalls + 1
    /\ call' = [op |-> op, box |-> box, word |-> word]

\* the record of the calls: the word goes with the last start_line call
WordAdded(lines, word) ==
    IF lines = <<>> THEN <<<<word>>>>
    ELSE [lines EXCEPT ![Len(lines)] = Append(@, word)]

LineBoxBuilder_start_line_call ==
    \E box \in LinePositions :
        /\ builder.kind = "LineBoxBuilder"
        /\ Called("start_line", box, NoneText)
        /\ builder' = [builder EXCEPT
                          !.lines = LineBoxBuilder_start_line(@, box)]
        /\ ret' = None
        /\ line_ended' = FALSE
        /\ started' = Append(started, <<>>)
        /\ UNCHANGED <<boxvars, filevars, parsevars, enginevars,
                    instvars>>

LineBoxBuilder_add_word_call ==
    \E word \in BuilderWords :
        /\ builder.kind = "LineBoxBuilder"
        /\ Called("add_word", WordPosition, word)
        /\ IF builder.lines = <<>>
           THEN \* self.lines[-1] raises IndexError
                /\ ret' = [raised |-> "IndexError"]
                /\ UNCHANGED <<builder, started>>
           ELSE /\ ret' = None
                /\ started' = WordAdded(started, word)
                /\ builder' = [builder EXCEPT
                      !.lines = LineBoxBuilder_add_word(@, word, WordPosition, 0)]
        /\ UNCHANGED <<line_ended, boxvars, filevars, parsevars, enginevars,
                    instvars>>

LineBoxBuilder_end_line_call ==
    /\ builder.kind = "LineBoxBuilder"
    /\ Called("end_line", NonePosition, NoneText)
    /\ ret' = None
    /\ line_ended' = TRUE
    /\ UNCHANGED <<builder, started, boxvars, filevars, parsevars, enginevars,
                    instvars>>

LineBoxBuilder_get_output_call ==
    /\ builder.kind = "LineBoxBuilder"
    /\ Called("get_output", NonePosition, NoneText)
    /\ ret' = [value |-> builder.lines]
    /\ UNCHANGED <<builder, line_ended, started, boxvars, filevars, parsevars, enginevars,
                    instvars>>

TextBuilder_start_line_call ==
    \E box \in LinePositions :
        /\ builder.kind = "TextBuilder"
        /\ Called("start_line", box, NoneText)
        /\ builder' = [builder EXCEPT
                          !.built_text = TextBuilder_start_line(@, box)]
        /\ ret' = None
        /\ line_ended' = FALSE
        /\ started' = Append(started, <<>>)
        /\ UNCHANGED <<boxvars, filevars, parsevars, enginevars,
                    instvars>>

TextBuilder_add_word_call ==
    \E word \in BuilderWords :
        /\ builder.kind = "TextBuilder"
        /\ Called("add_word", WordPosition, word)
        /\ IF builder.built_text = <<>>
           THEN \* self.built_text[-1] raises IndexError
                /\ ret' = [raised |-> "IndexError"]
                /\ UNCHANGED <<builder, started>>
           ELSE /\ ret' = None
                /\ started' = WordAdded(started, word)
                /\ builder' = [builder EXCEPT
                      !.built_text = TextBuilder_add_word(@, word, WordPosition, 0)]
        /\ UNCHANGED <<line_ended, boxvars, filevars, parsevars, enginevars,
                    instvars>>

TextBuilder_end_line_call ==
    /\ builder.kind = "TextBuilder"
    /\ Called("end_line", NonePosition, NoneText)
    /\ ret' = None
    /\ line_ended' = TRUE
    /\ UNCHANGED <<builder, started, boxvars, filevars, parsevars, enginevars,
                    instvars>>

TextBuilder_get_output_call ==
    /\ builder.kind = "TextBuilder"
    /\ Called("get_output", NonePosition, NoneText)
    /\ ret' = [value |-> JoinLines(builder.built_text)]
    /\ UNCHANGED <<builder, line_ended, started, boxvars, filevars, parsevars, enginevars,
                    instvars>>

NextBuilder ==
    \/ LineBoxBuilder_start_line_call
    \/ LineBoxBuilder_add_word_call
    \/ LineBoxBuilder_end_line_call
    \/ LineBoxBuilder_get_output_call
    \/ TextBuilder_start_line_call
    \/ TextBuilder_add_word_call
    \/ TextBuilder_end_line_call
    \/ TextBuilder_get_output_call

SpecBuilder == InitBuilder /\ [][NextBuilder]_vars

(***************************************************************************)
(* Claims on the incremental interface                                     *)
(***************************************************************************)
IsLineBoxBuilder == builder # None /\ builder.kind = "LineBoxBuilder"

IsTextBuilder == builder # None /\ builder.kind = "TextBuilder"

\* C2: when end_line has been called for the last started line, the lines
\* returned by LineBoxBuilder.get_output() hold no LineBox with zero word
\* boxes.
C2_NoEmptyLineInOutput ==
    (IsLineBoxBuilder /\ call # None /\ call.op = "get_output" /\ line_ended)
        => \A i \in 1..Len(ret.value) : ret.value[i].word_boxes # <<>>

\* the step is a call of start_line
StartLineStep == call'.op = "start_line" /\ ncalls' = ncalls + 1

\* C3 as claimed: LineBoxBuilder.start_line leaves the lines unchanged
\* exactly when a previous line exists and has no word boxes, and otherwise
\* appends one LineBox with no words and the given position;
\* TextBuilder.start_line always appends an empty line.
C3_StartLineByWordCount ==
    [][StartLineStep =>
        /\ IsLineBoxBuilder =>
             IF Len(builder.lines) > 0
                /\ builder.lines[Len(builder.lines)].word_boxes = <<>>
             THEN builder'.lines = builder.lines
             ELSE builder'.lines =
                      Append(builder.lines, LineBox(<<>>, call'.box))
        /\ IsTextBuilder =>
             builder'.built_text = Append(builder.built_text, <<>>)]_vars

\* every word box of the line has an empty or whitespace-only content
AllWordsBlank(line) ==
    \A i \in 1..Len(line.word_boxes) :
        \A j \in 1..Len(line.word_boxes[i].content) :
            line.word_boxes[i].content[j] \in Whitespace

\* C3 as amended: LineBoxBuilder.start_line leaves the lines unchanged
\* exactly when a previous line exists and every word box it holds (if any)
\* has an empty or whitespace-only content, and otherwise appends one
\* LineBox with no words and the given position; TextBuilder.start_line
\* always appends an empty line.
C3_StartLineByContent ==
    [][StartLineStep =>
        /\ IsLineBoxBuilder =>
             IF Len(builder.lines) > 0
                /\ AllWordsBlank(builder.lines[Len(builder.lines)])
             THEN builder'.lines = builder.lines
             ELSE builder'.lines =
                      Append(builder.lines, LineBox(<<>>, call'.box))
        /\ IsTextBuilder =>
             builder'.built_text = Append(builder.built_text, <<>>)]_vars

\* reached: start_line was just called on a LineBoxBuilder whose previous
\* line holds a word box with empty content, and no line was added
C3_Witness ==
    /\ IsLineBoxBuilder
    /\ call # None /\ call.op = "start_line"
    /\ Len(builder.lines) = 1
    /\ builder.lines[1].word_boxes # <<>>
    /\ AllWordsBlank(builder.lines[1])

(***************************************************************************)
(* Documents.  A document is the sequence of events html.parser delivers   *)
(* to the handlers of a parser when the text is fed to it: a start tag     *)
(* with its attributes, a run of text, an end tag.  An attribute is a pair *)
(* <<name, value>>; the value of a class attribute is kept as a string,    *)
(* the value of a title attribute as a sequence of characters.             *)
(***************************************************************************)
StartTag(tag, attrs) ==
    [type |-> "starttag", tag |-> tag, attrs |-> attrs, data |-> <<>>]

EndTag(tag) ==
    [type |-> "endtag", tag |-> tag, attrs |-> <<>>, data |-> <<>>]

Data(data) ==
    [type |-> "data", tag |-> "", attrs |-> <<>>, data |-> data]

S_bbox == <<"b", "b", "o", "x">>

S_x_wconf == <<"x", "_", "w", "c", "o", "n", "f">>

S_x_bboxes == <<"x", "_", "b", "b", "o", "x", "e", "s">>

S_semicolon_space == <<";", " ">>

S_space == <<" ">>

S_minus_one == <<"-", "1">>

S_baseline == <<"b", "a", "s", "e", "l", "i", "n", "e", " ", "0", " ", "-", "1">>

\* "bbox %d %d %d %d" % (position[0][0], position[0][1], position[1][0],
\* position[1][1])
BboxTitle(position) ==
    S_bbox \o S_space \o FormatInt(position[1][1])
           \o S_space \o FormatInt(position[1][2])
           \o S_space \o FormatInt(position[2][1])
           \o S_space \o FormatInt(position[2][2])

(***************************************************************************)
(* _WordHTMLParser                                                         *)
(***************************************************************************)
WORD_TAG_TYPES == {"ocr_word", "ocrx_word"}

LINE_TAG_TYPES == {"ocr_header", "ocr_footer", "ocr_line"}

\* _WordHTMLParser.__init__
WordHTMLParser_init ==
    [tag_types |-> <<>>,
     current_box_position |-> NonePosition,
     current_box_text |-> NoneText,
     current_box_confidence |-> 0,
     boxes |-> <<>>,
     current_line_position |-> NonePosition,
     current_line_content |-> <<>>,
     lines |-> <<>>,
     err |-> "none"]

Raise(name) == [ok |-> FALSE, val |-> 0, err |-> name]

Return(val) == [ok |-> TRUE, val |-> val, err |-> "none"]

\* the loop of __parse_confidence over the pieces of the title
RECURSIVE ParseConfidencePieces(_)
ParseConfidencePieces(title_pieces) ==
    IF title_pieces = <<>> THEN Return(0)
    ELSE LET piece == Strip(Head(title_pieces))
         IN  IF ~StartsWith(piece, S_x_wconf)
             THEN ParseConfidencePieces(Tail(title_pieces))
             ELSE LET fields == Split(piece, S_space)
                  IN  IF Len(fields) < 2 THEN Raise("IndexError")
                      ELSE IF ~ParseInt(fields[2]).ok THEN Raise("ValueError")
                      ELSE Return(ParseInt(fields[2]).val)

\* _WordHTMLParser.__parse_confidence
parse_confidence(title) == ParseConfidencePieces(Split(title, S_semicolon_space))

\* the loop of __parse_position over the pieces of the title
RECURSIVE ParsePositionPieces(_)
ParsePositionPieces(title_pieces) ==
    IF title_pieces = <<>> THEN Raise("Exception")
    ELSE LET piece == Strip(Head(title_pieces))
         IN  IF ~StartsWith(piece, S_bbox)
             THEN ParsePositionPieces(Tail(title_pieces))
             ELSE LET fields == Split(piece, S_space)
                  IN  IF Len(fields) < 5 THEN Raise("IndexError")
                      ELSE IF \E i \in 2..5 : ~ParseInt(fields[i]).ok
                           THEN Raise("ValueError")
                      ELSE Return(<< <<ParseInt(fields[2]).val,
                                       ParseInt(fields[3]).val>>,
                                     <<ParseInt(fields[4]).val,
                                       ParseInt(fields[5]).val>> >>)

\* __parse_position building the position as (bottom-right, top-left)
parse_position_corners_swapped(title) ==
    LET parsed == ParsePositionPieces(Split(title, S_semicolon_space))
    IN  IF parsed.ok THEN Return(<<parsed.val[2], parsed.val[1]>>) ELSE parsed

\* _WordHTMLParser.__parse_position
parse_position(title) == ParsePositionPieces(Split(title, S_semicolon_space))

\* the value of the last attribute called name, None when there is none
RECURSIVE LastAttr(_, _, _)
LastAttr(attrs, name, found) ==
    IF attrs = <<>> THEN found
    ELSE LastAttr(Tail(attrs), name,
                  IF Head(attrs)[1] = name
                  THEN [py_none |-> FALSE, value |-> Head(attrs)[2]]
                  ELSE found)

\* handle_starttag without the try / except around the word title
WordHTMLParser_handle_starttag_fatal_word(self, tag, attrs) ==
    LET tag_type == LastAttr(attrs, "class", None)
        title == LastAttr(attrs, "title", None)
    IN  IF tag # "span" THEN self
        ELSE IF title = None \/ tag_type = None THEN self
        ELSE IF tag_type.value \in WORD_TAG_TYPES
        THEN LET confidence == parse_confidence(title.value)
                 position == parse_position(title.value)
             IN  IF ~confidence.ok THEN [self EXCEPT !.err = confidence.err]
                 ELSE IF ~position.ok THEN [self EXCEPT !.err = position.err]
                 ELSE [self EXCEPT
                          !.current_box_confidence = confidence.val,
                          !.current_box_position = position.val,
                          !.current_box_text = <<>>,
                          !.tag_types = Append(@, tag_type.value)]
        ELSE IF tag_type.value \in LINE_TAG_TYPES
        THEN LET position == parse_position(title.value)
             IN  IF ~position.ok
                 THEN [self EXCEPT !.err = position.err]
                 ELSE [self EXCEPT
                          !.current_line_position = position.val,
                          !.current_line_content = <<>>,
                          !.tag_types = Append(@, tag_type.value)]
        ELSE [self EXCEPT !.tag_types = Append(@, tag_type.value)]

\* handle_starttag with the line title inside a try / except like the word
\* title
WordHTMLParser_handle_starttag_skip_line(self, tag, attrs) ==
    LET tag_type == LastAttr(attrs, "class", None)
        title == LastAttr(attrs, "title", None)
    IN  IF tag # "span" THEN self
        ELSE IF title = None \/ tag_type = None THEN self
        ELSE IF tag_type.value \in WORD_TAG_TYPES
        THEN LET confidence == parse_confidence(title.value)
                 position == parse_position(title.value)
             IN  IF ~confidence.ok \/ ~position.ok
                 THEN [self EXCEPT !.tag_types = Append(@, "ignore")]
                 ELSE [self EXCEPT
                          !.current_box_confidence = confidence.val,
                          !.current_box_position = position.val,
                          !.current_box_text = <<>>,
                          !.tag_types = Append(@, tag_type.value)]
        ELSE IF tag_type.value \in LINE_TAG_TYPES
        THEN LET position == parse_position(title.value)
             IN  IF ~position.ok
                 THEN [self EXCEPT !.tag_types = Append(@, "ignore")]
                 ELSE [self EXCEPT
                          !.current_line_position = position.val,
                          !.current_line_content = <<>>,
                          !.tag_types = Append(@, tag_type.value)]
        ELSE [self EXCEPT !.tag_types = Append(@, tag_type.value)]

\* _WordHTMLParser.handle_starttag
WordHTMLParser_handle_starttag(self, tag, attrs) ==
    LET tag_type == LastAttr(attrs, "class", None)
        title == LastAttr(attrs, "title", None)
    IN  IF tag # "span" THEN self
        ELSE IF title = None \/ tag_type = None THEN self
        ELSE IF tag_type.value \in WORD_TAG_TYPES
        THEN LET confidence == parse_confidence(title.value)
                 position == parse_position(title.value)
             IN  IF ~confidence.ok \/ ~position.ok
                 THEN [self EXCEPT !.tag_types = Append(@, "ignore")]
                 ELSE [self EXCEPT
                          !.current_box_confidence = confidence.val,
                          !.current_box_position = position.val,
                          !.current_box_text = <<>>,
                          !.tag_types = Append(@, tag_type.value)]
        ELSE IF tag_type.value \in LINE_TAG_TYPES
        THEN LET position == parse_position(title.value)
             IN  IF ~position.ok
                 THEN [self EXCEPT !.err = position.err]
                 ELSE [self EXCEPT
                          !.current_line_position = position.val,
                          !.current_line_content = <<>>,
                          !.tag_types = Append(@, tag_type.value)]
        ELSE [self EXCEPT !.tag_types = Append(@, tag_type.value)]

\* _WordHTMLParser.handle_data
WordHTMLParser_handle_data(self, data) ==
    IF self.current_box_text = NoneText THEN self
    ELSE [self EXCEPT !.current_box_text = @ \o data]

WordHTMLParser_close_word_flat_only(self) ==
    IF self.current_box_text = NoneText THEN self
    ELSE LET box == Box(self.current_box_text,
                        self.current_box_position,
                        self.current_box_confidence)
         IN  [self EXCEPT !.boxes = Append(@, box),
                          !.current_box_text = NoneText]

\* _WordHTMLParser.handle_endtag after the pop, for a word tag
WordHTMLParser_close_word(self) ==
    IF self.current_box_text = NoneText THEN self
    ELSE LET box == Box(self.current_box_text,
                        self.current_box_position,
                        self.current_box_confidence)
         IN  [self EXCEPT !.boxes = Append(@, box),
                          !.current_line_content = Append(@, box),
                          !.current_box_text = NoneText]

\* the line is emitted and the accumulator is kept for the next line
WordHTMLParser_close_line_keep_words(self) ==
    [self EXCEPT
        !.lines = Append(@, LineBox(self.current_line_content,
                                    self.current_line_position))]

\* _WordHTMLParser.handle_endtag after the pop, for a line tag
WordHTMLParser_close_line(self) ==
    [self EXCEPT
        !.lines = Append(@, LineBox(self.current_line_content,
                                    self.current_line_position)),
        !.current_line_content = <<>>]

\* _WordHTMLParser.handle_endtag
WordHTMLParser_handle_endtag(self, tag) ==
    IF tag # "span" THEN self
    ELSE IF self.tag_types = <<>> THEN [self EXCEPT !.err = "IndexError"]
    ELSE LET tag_type == self.tag_types[Len(self.tag_types)]
             popped == [self EXCEPT
                           !.tag_types = SubSeq(@, 1, Len(@) - 1)]
         IN  IF tag_type \in WORD_TAG_TYPES THEN WordHTMLParser_close_word(popped)
             ELSE IF tag_type \in LINE_TAG_TYPES
             THEN WordHTMLParser_close_line(popped)
             ELSE popped

\* one event of feed() dispatched to its handler
WordHTMLParser_handle(self, ev) ==
    IF ev.type = "starttag"
    THEN WordHTMLParser_handle_starttag(self, ev.tag, ev.attrs)
    ELSE IF ev.type = "endtag" THEN WordHTMLParser_handle_endtag(self, ev.tag)
    ELSE WordHTMLParser_handle_data(self, ev.data)

\* HTMLParser.feed on a _WordHTMLParser: an exception raised by a handler
\* ends the feed
RECURSIVE WordHTMLParser_feed(_, _)
WordHTMLParser_feed(self, events) ==
    IF events = <<>> \/ self.err # "none" THEN self
    ELSE WordHTMLParser_feed(WordHTMLParser_handle(self, Head(events)), Tail(events))

(***************************************************************************)
(* _LineHTMLParser                                                         *)
(***************************************************************************)
TAG_TYPE_CONTENT == 0

TAG_TYPE_POSITIONS == 1

\* None, where a list of coordinate strings is expected
NoneList == <<NoneText, NoneText>>

\* _LineHTMLParser.__init__
LineHTMLParser_init ==
    [boxes |-> <<>>,
     line_text |-> NoneText,
     char_positions |-> NoneList,
     err |-> "none"]

\* the first loop of handle_starttag: the tag type the class attributes give
RECURSIVE LineTagType(_, _)
LineTagType(attrs, tag_type) ==
    IF attrs = <<>> THEN tag_type
    ELSE LineTagType(Tail(attrs),
            IF Head(attrs)[1] = "class"
            THEN IF Head(attrs)[2] = "ocr_line" THEN TAG_TYPE_CONTENT
                 ELSE IF Head(attrs)[2] = "ocr_cinfo" THEN TAG_TYPE_POSITIONS
                 ELSE tag_type
            ELSE tag_type)

\* list.remove("-1") repeated until ValueError: every "-1" item is removed
RECURSIVE RemoveAll(_, _)
RemoveAll(list, item) ==
    IF list = <<>> THEN <<>>
    ELSE IF Head(list) = item THEN RemoveAll(Tail(list), item)
    ELSE <<Head(list)>> \o RemoveAll(Tail(list), item)

\* _LineHTMLParser.handle_starttag
LineHTMLParser_handle_starttag(self, tag, attrs) ==
    LET tag_type == LineTagType(attrs, -1)
        title == LastAttr(attrs, "title", None)
        split == IF title = None THEN self.char_positions
                 ELSE Split(title.value, S_space)
        tail == SubSeq(split, 2, Len(split))
        cut == IF tail[Len(tail)] = <<>>
               THEN SubSeq(tail, 1, Len(tail) - 1)
               ELSE tail
    IN  IF tag # "span" THEN self
        ELSE IF tag_type = TAG_TYPE_CONTENT
        THEN [self EXCEPT !.line_text = <<>>, !.char_positions = <<>>]
        ELSE IF tag_type = TAG_TYPE_POSITIONS
        THEN IF split = NoneList THEN [self EXCEPT !.err = "TypeError"]
             ELSE IF tail = <<>>
             THEN [self EXCEPT !.char_positions = tail, !.err = "IndexError"]
             ELSE [self EXCEPT !.char_positions = RemoveAll(cut, S_minus_one)]
        ELSE self

\* _LineHTMLParser.handle_data
LineHTMLParser_handle_data(self, data) ==
    IF self.line_text = NoneText THEN self
    ELSE [self EXCEPT !.line_text = @ \o data]

\* int(positions[x]) for x in range(first, 4 * n, 4)
CoordColumn(positions, first, n) ==
    [k \in 1..n |-> ParseInt(positions[first + 4 * (k - 1)])]

Min(S) == CHOOSE x \in S : \A y \in S : x <= y

Max(S) == CHOOSE x \in S : \A y \in S : x >= y

ColumnValues(column) == {column[k].val : k \in DOMAIN column}

\* the indices of positions in the order the four list comprehensions of
\* handle_endtag read them: all lefts, then tops, rights, bottoms
EvalOrder(n) ==
    [j \in 1..(4 * n) |-> ((j - 1) \div n) + 4 * ((j - 1) % n) + 1]

\* positions[idx] raises IndexError, or int() of it raises ValueError
BadCoord(positions, idx) ==
    idx > Len(positions) \/ ~ParseInt(positions[idx]).ok

\* the body of the loop of handle_endtag, taking the quadruple of the first
\* character of the word as the box of the word
RECURSIVE LineHTMLParser_words_first_char(_, _)
LineHTMLParser_words_first_char(self, words) ==
    IF words = <<>> THEN [self EXCEPT !.line_text = NoneText]
    ELSE IF Head(words) = <<>> THEN LineHTMLParser_words_first_char(self, Tail(words))
    ELSE LET word == Head(words)
             n == Len(word)
             have == Len(self.char_positions)
             positions == SubSeq(self.char_positions, 1,
                                 IF 4 * n <= have THEN 4 * n ELSE have)
             rest == SubSeq(self.char_positions, 4 * n + 1, have)
             cut == [self EXCEPT !.char_positions = rest]
             order == EvalOrder(n)
             bad == {j \in 1..(4 * n) : BadCoord(positions, order[j])}
         IN  IF bad # {}
             THEN IF order[Min(bad)] > Len(positions)
                  THEN [cut EXCEPT !.err = "IndexError"]
                  ELSE [cut EXCEPT !.err = "ValueError"]
             ELSE LET box_pos ==
                          << <<ParseInt(positions[1]).val,
                               ParseInt(positions[2]).val>>,
                             <<ParseInt(positions[3]).val,
                               ParseInt(positions[4]).val>> >>
                  IN  LineHTMLParser_words_first_char(
                          [cut EXCEPT !.boxes = Append(@, Box(word, box_pos, 0))],
                          Tail(words))

\* the body of the loop of handle_endtag over the words of the line
RECURSIVE LineHTMLParser_words(_, _)
LineHTMLParser_words(self, words) ==
    IF words = <<>> THEN [self EXCEPT !.line_text = NoneText]
    ELSE IF Head(words) = <<>> THEN LineHTMLParser_words(self, Tail(words))
    ELSE LET word == Head(words)
             n == Len(word)
             have == Len(self.char_positions)
             positions == SubSeq(self.char_positions, 1,
                                 IF 4 * n <= have THEN 4 * n ELSE have)
             rest == SubSeq(self.char_positions, 4 * n + 1, have)
             cut == [self EXCEPT !.char_positions = rest]
             order == EvalOrder(n)
             bad == {j \in 1..(4 * n) : BadCoord(positions, order[j])}
         IN  IF bad # {}
             THEN IF order[Min(bad)] > Len(positions)
                  THEN [cut EXCEPT !.err = "IndexError"]
                  ELSE [cut EXCEPT !.err = "ValueError"]
             ELSE LET box_pos ==
                          << <<Min(ColumnValues(CoordColumn(positions, 1, n))),
                               Min(ColumnValues(CoordColumn(positions, 2, n)))>>,
                             <<Max(ColumnValues(CoordColumn(positions, 3, n))),
                               Max(ColumnValues(CoordColumn(positions, 4, n)))>> >>
                  IN  LineHTMLParser_words(
                          [cut EXCEPT !.boxes = Append(@, Box(word, box_pos, 0))],
                          Tail(words))

\* handle_endtag that skips a line with fewer coordinates than 4 per
\* character of its text
LineHTMLParser_handle_endtag_skip_short(self, tag) ==
    IF self.line_text = NoneText
       \/ Len(self.char_positions) < 4 * Len(self.line_text)
    THEN self
    ELSE LineHTMLParser_words(self, Split(self.line_text, S_space))

\* _LineHTMLParser.handle_endtag
LineHTMLParser_handle_endtag(self, tag) ==
    IF self.line_text = NoneText \/ self.char_positions = <<>> THEN self
    ELSE LineHTMLParser_words(self, Split(self.line_text, S_space))

\* one event of feed() dispatched to its handler
LineHTMLParser_handle(self, ev) ==
    IF ev.type = "starttag"
    THEN LineHTMLParser_handle_starttag(self, ev.tag, ev.attrs)
    ELSE IF ev.type = "endtag" THEN LineHTMLParser_handle_endtag(self, ev.tag)
    ELSE LineHTMLParser_handle_data(self, ev.data)

\* HTMLParser.feed on a _LineHTMLParser
RECURSIVE LineHTMLParser_feed(_, _)
LineHTMLParser_feed(self, events) ==
    IF events = <<>> \/ self.err # "none" THEN self
    ELSE LineHTMLParser_feed(LineHTMLParser_handle(self, Head(events)), Tail(events))

(***************************************************************************)
(* Serialization: get_xml_tag, toxml and write_file                        *)
(***************************************************************************)
S_amp == <<"&", "a", "m", "p", ";">>

S_lt == <<"&", "l", "t", ";">>

S_gt == <<"&", "g", "t", ";">>

\* the text of a Text node as toxml() writes it
RECURSIVE XmlEscape(_)
XmlEscape(s) ==
    IF s = <<>> THEN <<>>
    ELSE (IF Head(s) = "&" THEN S_amp
          ELSE IF Head(s) = "<" THEN S_lt
          ELSE IF Head(s) = ">" THEN S_gt
          ELSE <<Head(s)>>) \o XmlEscape(Tail(s))

\* the text html.parser hands to handle_data: character references replaced
RECURSIVE HtmlUnescape(_)
HtmlUnescape(s) ==
    IF s = <<>> THEN <<>>
    ELSE IF StartsWith(s, S_amp)
    THEN <<"&">> \o HtmlUnescape(SubSeq(s, Len(S_amp) + 1, Len(s)))
    ELSE IF StartsWith(s, S_lt)
    THEN <<"<">> \o HtmlUnescape(SubSeq(s, Len(S_lt) + 1, Len(s)))
    ELSE IF StartsWith(s, S_gt)
    THEN <<">">> \o HtmlUnescape(SubSeq(s, Len(S_gt) + 1, Len(s)))
    ELSE <<Head(s)>> \o HtmlUnescape(Tail(s))

\* the events of a run of text written by toxml(): none for an empty run
TextEvents(raw) == IF raw = <<>> THEN <<>> ELSE <<Data(HtmlUnescape(raw))>>

Box_title_corners_swapped(box) ==
    BboxTitle(<<box.position[2], box.position[1]>>)
        \o S_semicolon_space \o S_x_wconf \o S_space \o FormatInt(box.confidence)

\* the title attribute set by Box.get_xml_tag
Box_title(box) ==
    BboxTitle(box.position)
        \o S_semicolon_space \o S_x_wconf \o S_space \o FormatInt(box.confidence)

\* Box.get_xml_tag(...).toxml(), as events
Box_get_xml_tag(box) ==
    <<StartTag("span", << <<"class", "ocrx_word">>,
                          <<"title", Box_title(box)>> >>)>>
        \o TextEvents(XmlEscape(box.content))
        \o <<EndTag("span")>>

\* the children of the span of a line: its word spans, a " " text node
\* before each but the first
RECURSIVE LineBox_children(_, _)
LineBox_children(word_boxes, box_idx) ==
    IF word_boxes = <<>> THEN <<>>
    ELSE (IF box_idx # 0 THEN TextEvents(XmlEscape(S_space)) ELSE <<>>)
         \o Box_get_xml_tag(Head(word_boxes))
         \o LineBox_children(Tail(word_boxes), box_idx + 1)

\* LineBox.get_xml_tag(...).toxml(), as events
LineBox_get_xml_tag(line) ==
    <<StartTag("span", << <<"class", "ocr_line">>,
                          <<"title", BboxTitle(line.position)>> >>)>>
        \o LineBox_children(line.word_boxes, 0)
        \o <<EndTag("span")>>

S_newline == <<"\n">>

S_ocr_output == <<"O", "C", "R", " ", "o", "u", "t", "p", "u", "t">>

\* _XHTML_HEADER followed by "<body>\n"
XHTML_HEADER ==
    <<StartTag("html", <<>>), Data(S_newline),
      StartTag("head", <<>>), Data(S_newline),
      StartTag("title", <<>>), Data(S_ocr_output), EndTag("title"),
      Data(S_newline), EndTag("head"), Data(S_newline),
      StartTag("body", <<>>), Data(S_newline)>>

XHTML_FOOTER == <<EndTag("body"), Data(S_newline), EndTag("html"), Data(S_newline)>>

\* the loop of WordBoxBuilder.write_file over the boxes
RECURSIVE WordBoxBuilder_write_boxes(_)
WordBoxBuilder_write_boxes(boxes) ==
    IF boxes = <<>> THEN <<>>
    ELSE <<StartTag("p", <<>>)>> \o Box_get_xml_tag(Head(boxes))
         \o <<EndTag("p"), Data(S_newline)>>
         \o WordBoxBuilder_write_boxes(Tail(boxes))

\* WordBoxBuilder.write_file: the document written
WordBoxBuilder_write_file(boxes) ==
    XHTML_HEADER \o WordBoxBuilder_write_boxes(boxes) \o XHTML_FOOTER

\* the loop of LineBoxBuilder.write_file over the lines
RECURSIVE LineBoxBuilder_write_boxes(_)
LineBoxBuilder_write_boxes(boxes) ==
    IF boxes = <<>> THEN <<>>
    ELSE <<StartTag("p", <<>>)>> \o LineBox_get_xml_tag(Head(boxes))
         \o <<EndTag("p"), Data(S_newline)>>
         \o LineBoxBuilder_write_boxes(Tail(boxes))

\* LineBoxBuilder.write_file: the document written
LineBoxBuilder_write_file(boxes) ==
    XHTML_HEADER \o LineBoxBuilder_write_boxes(boxes) \o XHTML_FOOTER

(***************************************************************************)
(* read_file                                                               *)
(***************************************************************************)
\* the last box popped whatever its content
PopEmptyLast_any_content(boxes) == SubSeq(boxes, 1, Len(boxes) - 1)

\* p.boxes after `if last_box.content == "": p.boxes.pop(-1)`
PopEmptyLast(boxes) ==
    IF boxes[Len(boxes)].content = <<>>
    THEN SubSeq(boxes, 1, Len(boxes) - 1)
    ELSE boxes

\* what a read_file call did: the exception it raised ("none" when it
\* returned), the value returned, and the parsers it fed, in order
ReadResult(raised, value, fed) ==
    [raised |-> raised, value |-> value, fed |-> fed]

WordBoxBuilder_read_file_no_fallback(html_str) ==
    LET p1 == WordHTMLParser_feed(WordHTMLParser_init, html_str)
    IN  IF p1.err # "none" THEN ReadResult(p1.err, <<>>, <<"_WordHTMLParser">>)
        ELSE IF Len(p1.boxes) > 0
        THEN ReadResult("none", PopEmptyLast(p1.boxes), <<"_WordHTMLParser">>)
        ELSE ReadResult("none", <<>>, <<"_WordHTMLParser">>)

WordBoxBuilder_read_file_line_first(html_str) ==
    LET p1 == LineHTMLParser_feed(LineHTMLParser_init, html_str)
        p2 == WordHTMLParser_feed(WordHTMLParser_init, html_str)
        both == <<"_LineHTMLParser", "_WordHTMLParser">>
    IN  IF p1.err # "none" THEN ReadResult(p1.err, <<>>, <<"_LineHTMLParser">>)
        ELSE IF Len(p1.boxes) > 0
        THEN ReadResult("none", PopEmptyLast(p1.boxes), <<"_LineHTMLParser">>)
        ELSE IF p2.err # "none" THEN ReadResult(p2.err, <<>>, both)
        ELSE IF Len(p2.boxes) > 0
        THEN ReadResult("none", PopEmptyLast(p2.boxes), both)
        ELSE ReadResult("none", <<>>, both)

\* WordBoxBuilder.read_file
WordBoxBuilder_read_file(html_str) ==
    LET p1 == WordHTMLParser_feed(WordHTMLParser_init, html_str)
        p2 == LineHTMLParser_feed(LineHTMLParser_init, html_str)
        both == <<"_WordHTMLParser", "_LineHTMLParser">>
    IN  IF p1.err # "none" THEN ReadResult(p1.err, <<>>, <<"_WordHTMLParser">>)
        ELSE IF Len(p1.boxes) > 0
        THEN ReadResult("none", PopEmptyLast(p1.boxes), <<"_WordHTMLParser">>)
        ELSE IF p2.err # "none" THEN ReadResult(p2.err, <<>>, both)
        ELSE IF Len(p2.boxes) > 0
        THEN ReadResult("none", PopEmptyLast(p2.boxes), both)
        ELSE ReadResult("none", <<>>, both)

\* the boxes of the parser returned as they are, not wrapped in lines
SingletonLines_unwrapped(boxes) == boxes

\* all the boxes of the parser in one line at the position of the first
SingletonLines_one_line(boxes) ==
    IF boxes = <<>> THEN <<>> ELSE <<LineBox(boxes, boxes[1].position)>>

\* lambda parser: [LineBox([box], box.position) for box in parser.boxes]
SingletonLines(boxes) ==
    [i \in 1..Len(boxes) |-> LineBox(<<boxes[i]>>, boxes[i].position)]

\* LineBoxBuilder.read_file
LineBoxBuilder_read_file(html_str) ==
    LET p1 == WordHTMLParser_feed(WordHTMLParser_init, html_str)
        p2 == LineHTMLParser_feed(LineHTMLParser_init, html_str)
        both == <<"_WordHTMLParser", "_LineHTMLParser">>
    IN  IF p1.err # "none" THEN ReadResult(p1.err, <<>>, <<"_WordHTMLParser">>)
        ELSE IF Len(p1.boxes) > 0
        THEN ReadResult("none", p1.lines, <<"_WordHTMLParser">>)
        ELSE IF p2.err # "none" THEN ReadResult(p2.err, <<>>, both)
        ELSE IF Len(p2.boxes) > 0
        THEN ReadResult("none", SingletonLines(PopEmptyLast(p2.boxes)), both)
        ELSE ReadResult("none", <<>>, both)

\* TextBuilder.read_file
TextBuilder_read_file(text) == ReadResult("none", Strip(text), <<>>)

\* the body of the loop of CharBoxBuilder.read_file over the lines
RECURSIVE CharBoxBuilder_read_lines(_, _)
CharBoxBuilder_read_lines(lines, boxes) ==
    IF lines = <<>> THEN ReadResult("none", boxes, <<>>)
    ELSE LET line == Strip(Head(lines))
             elements == Split(line, S_space)
         IN  IF line = <<>> THEN CharBoxBuilder_read_lines(Tail(lines), boxes)
             ELSE IF Len(elements) < 6
             THEN CharBoxBuilder_read_lines(Tail(lines), boxes)
             ELSE IF \E i \in 2..5 : ~ParseInt(elements[i]).ok
             THEN ReadResult("ValueError", <<>>, <<>>)
             ELSE CharBoxBuilder_read_lines(
                      Tail(lines),
                      Append(boxes,
                             Box(elements[1],
                                 << <<ParseInt(elements[2]).val,
                                      ParseInt(elements[3]).val>>,
                                    <<ParseInt(elements[4]).val,
                                      ParseInt(elements[5]).val>> >>,
                                 0)))

\* CharBoxBuilder.read_file; readlines() cuts the text after each "\n", and
\* strip() then removes that "\n" from the line
CharBoxBuilder_read_file(text) ==
    CharBoxBuilder_read_lines(Split(text, <<"\n">>), <<>>)

\* Box.__str__
Box_str(self) ==
    self.content \o S_space \o FormatInt(self.position[1][1])
                 \o S_space \o FormatInt(self.position[1][2])
                 \o S_space \o FormatInt(self.position[2][1])
                 \o S_space \o FormatInt(self.position[2][2])

\* write_file that leaves out the " 0" after each box
RECURSIVE CharBoxBuilder_write_file_no_page(_)
CharBoxBuilder_write_file_no_page(boxes) ==
    IF boxes = <<>> THEN <<>>
    ELSE Box_str(Head(boxes)) \o S_newline
         \o CharBoxBuilder_write_file_no_page(Tail(boxes))

\* CharBoxBuilder.write_file
RECURSIVE CharBoxBuilder_write_file(_)
CharBoxBuilder_write_file(boxes) ==
    IF boxes = <<>> THEN <<>>
    ELSE Box_str(Head(boxes)) \o <<" ", "0", "\n">>
         \o CharBoxBuilder_write_file(Tail(boxes))

(***************************************************************************)
(* Output files.  The file is either written piece by piece by an OCR      *)
(* engine, or written by write_file; it is then read by a WordBoxBuilder   *)
(* and by a LineBoxBuilder.                                                *)
(***************************************************************************)
\* the bounding box the engine reports for the line written as piece i
EngineLinePosition(i) == << <<0, 10 * i>>, <<99, 10 * i + 9>> >>

\* the bounding box the engine reports for word j of piece i (j = 0 for a
\* word outside any line)
EngineWordPosition(i, j) == << <<10 * j, 10 * i>>, <<10 * j + 8, 10 * i + 9>> >>

\* the confidence the engine reports for a word of piece i
EngineConfidence(i) == 80 + i

S_a == <<"a">>

S_ab_c == <<"a", "b", " ", "c">>

S_bbox_1_2 == S_bbox \o S_space \o <<"1", " ", "2">>

S_bbox_1_x_3_4 == S_bbox \o S_space \o <<"1", " ", "x", " ", "3", " ", "4">>

\* a title without a valid bounding box, as the engine writes it for its
\* n-th element: no bbox token, a bbox token cut short, or a bbox token
\* holding something that is not an integer
BadTitle(n) ==
    CASE n % 3 = 0 -> S_x_wconf \o S_space \o FormatInt(EngineConfidence(n))
      [] n % 3 = 1 -> S_bbox_1_2
      [] n % 3 = 2 -> S_bbox_1_x_3_4 \o S_semicolon_space \o S_baseline

\* a word tag of the Tesseract dialect, followed by the space that separates
\* it from the next tag.  "word": bbox and x_wconf in the title, text "a";
\* "word_empty": bbox only, no text; "word_bad": no valid bbox in the title.
WordEvents(kind, i, j) ==
    CASE kind = "word" ->
           Box_get_xml_tag(Box(S_a, EngineWordPosition(i, j), EngineConfidence(i)))
               \o <<Data(S_space)>>
      [] kind = "word_empty" ->
           <<StartTag("span", << <<"class", "ocrx_word">>,
                                 <<"title", BboxTitle(EngineWordPosition(i, j))>> >>),
             EndTag("span"), Data(S_space)>>
      [] kind = "word_bad" ->
           <<StartTag("span", << <<"class", "ocrx_word">>,
                                 <<"title", BadTitle(i + j)>> >>),
             Data(S_a), EndTag("span"), Data(S_space)>>

RECURSIVE LineWordEvents(_, _, _)
LineWordEvents(kinds, i, j) ==
    IF kinds = <<>> THEN <<>>
    ELSE WordEvents(Head(kinds), i, j) \o LineWordEvents(Tail(kinds), i, j + 1)

\* the title of an ocr_cinfo span: "x_bboxes" and the coordinates
RECURSIVE CinfoTitle(_)
CinfoTitle(coords) ==
    IF coords = <<>> THEN S_x_bboxes
    ELSE CinfoTitle(SubSeq(coords, 1, Len(coords) - 1))
             \o S_space \o FormatInt(coords[Len(coords)])

\* a line of the character-position dialect: the text of the line and the
\* coordinates of its characters
CuneiformLine(i, text, coords) ==
    <<StartTag("span", << <<"class", "ocr_line">>,
                          <<"title", BboxTitle(EngineLinePosition(i))>> >>),
      Data(text),
      StartTag("span", << <<"class", "ocr_cinfo">>,
                          <<"title", CinfoTitle(coords)>> >>),
      EndTag("span"),
      EndTag("span"),
      Data(S_newline)>>

Piece(kind, words) == [kind |-> kind, words |-> words]

\* the events of a piece written as the i-th piece of the file
PieceEvents(piece, i) ==
    CASE piece.kind = "line" ->
           <<StartTag("span", << <<"class", "ocr_line">>,
                                 <<"title", BboxTitle(EngineLinePosition(i))>> >>)>>
               \o LineWordEvents(piece.words, i, 1)
               \o <<EndTag("span"), Data(S_newline)>>
      [] piece.kind = "line_bad" ->
           <<StartTag("span", << <<"class", "ocr_line">>,
                                 <<"title", BadTitle(i)>> >>)>>
               \o WordEvents("word", i, 1)
               \o <<EndTag("span"), Data(S_newline)>>
      [] piece.kind \in {"word", "word_empty", "word_bad"} ->
           WordEvents(piece.kind, i, 0)
      [] piece.kind = "cuneiform" ->
           CuneiformLine(i, S_ab_c,
               <<i, 1, i + 5, 6,  i + 6, 0, i + 11, 5,  -1, -1, -1, -1,
                 i + 12, 0, i + 17, 5>>)
      [] piece.kind = "cuneiform_short" ->
           CuneiformLine(i, S_ab_c, <<i, 1, i + 5, 6>>)
      [] piece.kind = "bare_span" ->
           <<StartTag("span", <<>>), Data(S_a), EndTag("span")>>

WordKinds == {"word", "word_empty", "word_bad"}

\* the word tags of a line tag: none, one, or two of which one at least is
\* a word with a text and a valid title
LineWords ==
    {<<>>} \cup {<<k>> : k \in WordKinds}
           \cup {<<"word", k>> : k \in WordKinds}
           \cup {<<k, "word">> : k \in WordKinds}

EnginePieces ==
    {Piece("line", ws) : ws \in LineWords}
        \cup {Piece(k, <<>>) : k \in WordKinds}
        \cup {Piece(k, <<>>) : k \in {"cuneiform", "cuneiform_short", "bare_span",
                                       "line_bad"}}

\* the boxes handed to write_file
WriteContents == {<<>>, <<"a">>, <<"<", "b">>}

WritePositions == {<< <<0, 0>>, <<1, 1>> >>, << <<-3, 10>>, <<25, 7>> >>}

WriteConfidences == {0, 87}

WriteBoxes ==
    {Box(c, p, k) : c \in WriteContents, p \in WritePositions,
                    k \in WriteConfidences}

BoxLists == UNION {[1..n -> WriteBoxes] : n \in 0..MaxBoxes}

\* the word boxes of a line handed to LineBoxBuilder.write_file
LineWordBoxes ==
    {Box(<<>>, << <<0, 0>>, <<1, 1>> >>, 0),
     Box(<<"a">>, << <<0, 0>>, <<1, 1>> >>, 87),
     Box(<<"<", "b">>, << <<-3, 10>>, <<25, 7>> >>, 0)}

WordBoxLists == UNION {[1..n -> LineWordBoxes] : n \in 0..2}

\* the lists of lines handed to LineBoxBuilder.write_file
LineLists ==
    UNION {{[k \in 1..n |-> LineBox(ws[k], EngineLinePosition(k))] :
                ws \in [1..n -> WordBoxLists]} : n \in 0..MaxLines}

\* the boxes handed to CharBoxBuilder.write_file
CharWriteBoxes ==
    {Box(<<"a">>, << <<0, 0>>, <<1, 1>> >>, 0),
     Box(<<"-", "1">>, << <<-3, 10>>, <<25, 7>> >>, 87),
     Box(<<>>, << <<0, 0>>, <<1, 1>> >>, 0),
     Box(<<"a", " ", "b">>, << <<0, 0>>, <<1, 1>> >>, 0)}

CharBoxLists == UNION {[1..n -> CharWriteBoxes] : n \in 0..MaxBoxes}

\* the lines an engine writes to a text file or to a box file
S_a_1_2_3_4_0 == <<"a", " ", "1", " ", "2", " ", "3", " ", "4", " ", "0">>

S_b_5_6_17_8_0 ==
    <<"b", " ", "5", " ", "6", " ", "1", "7", " ", "8", " ", "0">>

S_a_x_2_3_4_0 == <<"a", " ", "x", " ", "2", " ", "3", " ", "4", " ", "0">>

TextLines == {<<>>, S_ab_c, S_a_1_2_3_4_0, S_b_5_6_17_8_0, S_a_x_2_3_4_0}

\* each line followed by "\n"
RECURSIVE JoinTextLines(_)
JoinTextLines(lines) ==
    IF lines = <<>> THEN <<>>
    ELSE Head(lines) \o S_newline \o JoinTextLines(Tail(lines))

TextFiles ==
    {JoinTextLines(ls) :
        ls \in UNION {[1..n -> TextLines] : n \in 0..MaxTextLines}}

Unread == read_w = None /\ read_l = None /\ read_t = None /\ read_c = None

InitFile ==
    /\ BoxIdle
    /\ InstIdle
    /\ BuilderIdle
    /\ ParseIdle
    /\ EngineIdle
    /\ pieces = <<>>
    /\ doc = <<>>
    /\ written = None
    /\ read_w = None
    /\ read_l = None
    /\ plain = NoneText
    /\ read_t = None
    /\ read_c = None

\* the OCR engine writes a text file or a box file; html.parser delivers
\* such a file as one run of text
Engine_write_text ==
    \E text \in TextFiles :
        /\ written = None
        /\ pieces = <<>>
        /\ plain = NoneText
        /\ Unread
        /\ plain' = text
        /\ doc' = IF text = <<>> THEN <<>> ELSE <<Data(text)>>
        /\ UNCHANGED <<pieces, written, read_w, read_l, read_t, read_c,
                       boxvars, buildervars, parsevars, enginevars,
                    instvars>>

\* the OCR engine writes one more piece of its output
Engine_write ==
    \E piece \in EnginePieces :
        /\ written = None
        /\ plain = NoneText
        /\ Unread
        /\ Len(pieces) < MaxPieces
        /\ pieces' = Append(pieces, piece)
        /\ doc' = doc \o PieceEvents(piece, Len(pieces) + 1)
        /\ UNCHANGED <<written, read_w, read_l, plain, read_t, read_c, boxvars, buildervars,
                     parsevars, enginevars,
                    instvars>>

WordBoxBuilder_write_file_call ==
    \E boxes \in BoxLists :
        /\ written = None
        /\ plain = NoneText
        /\ pieces = <<>>
        /\ Unread
        /\ doc' = WordBoxBuilder_write_file(boxes)
        /\ written' = [builder |-> "WordBoxBuilder", output |-> boxes]
        /\ UNCHANGED <<pieces, read_w, read_l, plain, read_t, read_c, boxvars, buildervars,
                     parsevars, enginevars,
                    instvars>>

LineBoxBuilder_write_file_call ==
    \E lines \in LineLists :
        /\ written = None
        /\ pieces = <<>>
        /\ Unread
        /\ plain = NoneText
        /\ doc' = LineBoxBuilder_write_file(lines)
        /\ written' = [builder |-> "LineBoxBuilder", output |-> lines]
        /\ UNCHANGED <<pieces, read_w, read_l, plain, read_t, read_c, boxvars,
                       buildervars, parsevars, enginevars,
                    instvars>>

\* the file is a box file: html.parser delivers it as one run of text
CharBoxBuilder_write_file_call ==
    \E boxes \in CharBoxLists :
        /\ written = None
        /\ pieces = <<>>
        /\ plain = NoneText
        /\ Unread
        /\ plain' = CharBoxBuilder_write_file(boxes)
        /\ doc' = IF boxes = <<>> THEN <<>>
                  ELSE <<Data(CharBoxBuilder_write_file(boxes))>>
        /\ written' = [builder |-> "CharBoxBuilder", output |-> boxes]
        /\ UNCHANGED <<pieces, read_w, read_l, read_t, read_c, boxvars,
                       buildervars, parsevars, enginevars, instvars>>

WordBoxBuilder_read_file_call ==
    /\ read_w = None
    /\ read_w' = WordBoxBuilder_read_file(doc)
    /\ UNCHANGED <<pieces, doc, written, read_l, plain, read_t, read_c, boxvars, buildervars,
                     parsevars, enginevars,
                    instvars>>

LineBoxBuilder_read_file_call ==
    /\ read_l = None
    /\ read_l' = LineBoxBuilder_read_file(doc)
    /\ UNCHANGED <<pieces, doc, written, read_w, plain, read_t, read_c, boxvars, buildervars,
                     parsevars, enginevars,
                    instvars>>

TextBuilder_read_file_call ==
    /\ plain # NoneText
    /\ read_t = None
    /\ read_t' = TextBuilder_read_file(plain)
    /\ UNCHANGED <<pieces, doc, written, read_w, read_l, plain, read_c,
                   boxvars, buildervars, parsevars, enginevars,
                    instvars>>

CharBoxBuilder_read_file_call ==
    /\ plain # NoneText
    /\ read_c = None
    /\ read_c' = CharBoxBuilder_read_file(plain)
    /\ UNCHANGED <<pieces, doc, written, read_w, read_l, plain, read_t,
                   boxvars, buildervars, parsevars, enginevars,
                    instvars>>

NextFile ==
    \/ Engine_write
    \/ Engine_write_text
    \/ TextBuilder_read_file_call
    \/ CharBoxBuilder_read_file_call
    \/ WordBoxBuilder_write_file_call
    \/ LineBoxBuilder_write_file_call
    \/ CharBoxBuilder_write_file_call
    \/ WordBoxBuilder_read_file_call
    \/ LineBoxBuilder_read_file_call

SpecFile == InitFile /\ [][NextFile]_vars

(***************************************************************************)
(* Claims on read_file and write_file                                      *)
(***************************************************************************)
\* the i-th box read has the content, position and confidence of the i-th
\* box of expected, and there are as many
SameBoxes(got, expected) ==
    /\ Len(got) = Len(expected)
    /\ \A i \in 1..Len(expected) :
          /\ got[i].content = expected[i].content
          /\ got[i].position = expected[i].position
          /\ got[i].confidence = expected[i].confidence

WrittenThenRead ==
    /\ written # None
    /\ written.builder = "WordBoxBuilder"
    /\ read_w # None

\* C1 as claimed: WordBoxBuilder.write_file followed by
\* WordBoxBuilder.read_file returns a list of the same length whose i-th
\* Box has the content, position and confidence of the i-th Box written.
C1_RoundTripEveryBox ==
    WrittenThenRead =>
        /\ read_w.raised = "none"
        /\ SameBoxes(read_w.value, written.output)

\* the list without its last box when that box has an empty content
WithoutEmptyLast(boxes) ==
    IF boxes # <<>> /\ boxes[Len(boxes)].content = <<>>
    THEN SubSeq(boxes, 1, Len(boxes) - 1)
    ELSE boxes

\* C1 as amended: the boxes read back are the boxes written, in order, with
\* the same content, position and confidence, except that a last written
\* box whose content is the empty string is not returned.
C1_RoundTripButEmptyLast ==
    WrittenThenRead =>
        /\ read_w.raised = "none"
        /\ SameBoxes(read_w.value, WithoutEmptyLast(written.output))

\* reached: two boxes with different contents, positions and confidences
\* were written and read back
C1_Witness ==
    /\ WrittenThenRead
    /\ Len(written.output) = 2
    /\ written.output[1].content = <<"<", "b">>
    /\ written.output[1].position[1][1] < 0
    /\ written.output[1].confidence = 87
    /\ written.output[2].content = <<"a">>
    /\ written.output[2].position # written.output[1].position
    /\ Len(read_w.value) = 2

\* the two parsers run on the file, each from its initial state
WordParse == WordHTMLParser_feed(WordHTMLParser_init, doc)

LineParse == LineHTMLParser_feed(LineHTMLParser_init, doc)

BothParsers == <<"_WordHTMLParser", "_LineHTMLParser">>

TesseractYieldsNoBox ==
    LET w == WordParse IN w.err = "none" /\ w.boxes = <<>>

TesseractYieldsBoxes ==
    LET w == WordParse IN w.err = "none" /\ Len(w.boxes) >= 1

\* C7: when the Tesseract-dialect parser yields zero boxes, read_file feeds
\* the same document to the character-position parser next and returns its
\* result (wrapped as one-box lines by LineBoxBuilder); when that parser
\* yields zero boxes too, the result is the empty list and nothing is raised.
C7_FallbackToCharacterPositions ==
    LET l == LineParse
    IN  TesseractYieldsNoBox =>
            /\ read_w # None =>
                  /\ read_w.fed = BothParsers
                  /\ read_w.raised = l.err
                  /\ l.err = "none" => read_w.value = l.boxes
            /\ read_l # None =>
                  /\ read_l.fed = BothParsers
                  /\ read_l.raised = l.err
                  /\ l.err = "none" =>
                        /\ Len(read_l.value) = Len(l.boxes)
                        /\ \A i \in 1..Len(l.boxes) :
                              /\ read_l.value[i].word_boxes = <<l.boxes[i]>>
                              /\ read_l.value[i].position = l.boxes[i].position
            /\ (l.err = "none" /\ l.boxes = <<>>) =>
                  /\ read_w # None => (read_w.raised = "none" /\ read_w.value = <<>>)
                  /\ read_l # None => (read_l.raised = "none" /\ read_l.value = <<>>)

\* reached: the Tesseract-dialect parser found nothing, and both builders
\* returned what the character-position parser found
C7_Witness ==
    /\ read_w # None /\ read_l # None
    /\ TesseractYieldsNoBox
    /\ LineParse.err = "none" /\ Len(LineParse.boxes) >= 2
    /\ Len(read_w.value) >= 2
    /\ Len(read_l.value) >= 2

\* C8: when the Tesseract-dialect parser yields at least one box, read_file
\* returns that parser's boxes (a last box with empty content dropped) or
\* lines, and the character-position parser is not fed.
C8_TesseractIsAuthoritative ==
    LET w == WordParse
    IN  (w.err = "none" /\ Len(w.boxes) >= 1) =>
            /\ read_w # None =>
                  /\ read_w.fed = <<"_WordHTMLParser">>
                  /\ read_w.raised = "none"
                  /\ read_w.value = WithoutEmptyLast(w.boxes)
            /\ read_l # None =>
                  /\ read_l.fed = <<"_WordHTMLParser">>
                  /\ read_l.raised = "none"
                  /\ read_l.value = w.lines

\* reached: both parsers would yield boxes on the file, and both builders
\* returned the Tesseract-dialect result
C8_Witness ==
    /\ read_w # None /\ read_l # None
    /\ TesseractYieldsBoxes
    /\ LineParse.err = "none" /\ LineParse.boxes # <<>>
    /\ read_w.value # <<>>
    /\ read_l.value # <<>>

\* the engine wrote a Tesseract-dialect document: closed line tags holding
\* word tags with valid titles, and nothing outside the lines
OnlyLinesOfWords(ps) ==
    \A i \in 1..Len(ps) :
        /\ ps[i].kind = "line"
        /\ \A j \in 1..Len(ps[i].words) : ps[i].words[j] \in {"word", "word_empty"}

TesseractDocument ==
    written = None /\ pieces # <<>> /\ OnlyLinesOfWords(pieces)

\* the contents of the boxes, in order
Contents(boxes) == [i \in 1..Len(boxes) |-> boxes[i].content]

\* the word boxes of the lines, in line order then word order
RECURSIVE Flatten(_)
Flatten(lines) ==
    IF lines = <<>> THEN <<>>
    ELSE Head(lines).word_boxes \o Flatten(Tail(lines))

\* C9: on a Tesseract-dialect document, the word boxes of the lines
\* LineBoxBuilder.read_file returns, flattened, have the same contents in
\* the same order as the boxes WordBoxBuilder.read_file returns.
C9_SameWordsFromBothBuilders ==
    (TesseractDocument /\ read_w # None /\ read_l # None) =>
        /\ read_w.raised = "none" /\ read_l.raised = "none"
        /\ Contents(Flatten(read_l.value)) = Contents(read_w.value)

\* the number of word tags nested in each line tag, in document order
WordsPerLine == [k \in 1..Len(pieces) |-> Len(pieces[k].words)]

HasLineWithWords == \E k \in 1..Len(pieces) : WordsPerLine[k] > 0

\* C10 as claimed: on well-formed Tesseract-dialect input with at least one
\* line tag holding word tags, no LineBox emitted has zero words.
C10_NoEmptyLineBox ==
    (TesseractDocument /\ HasLineWithWords /\ read_l # None) =>
        \A k \in 1..Len(read_l.value) : read_l.value[k].word_boxes # <<>>

\* C10 as amended: on such input one LineBox is emitted per line tag, in
\* document order, holding one word box per word tag nested in that line
\* tag; a LineBox has zero words exactly when its line tag holds no word tag.
C10_OneWordBoxPerNestedWord ==
    (TesseractDocument /\ HasLineWithWords /\ read_l # None) =>
        /\ read_l.raised = "none"
        /\ Len(read_l.value) = Len(WordsPerLine)
        /\ \A k \in 1..Len(read_l.value) :
              Len(read_l.value[k].word_boxes) = WordsPerLine[k]

\* reached: a document with a line of two words and a line without words
\* was read into two lines
C10_Witness ==
    /\ TesseractDocument /\ read_l # None
    /\ \E k \in 1..Len(WordsPerLine) : WordsPerLine[k] = 2
    /\ \E k \in 1..Len(WordsPerLine) : WordsPerLine[k] = 0
    /\ Len(read_l.value) = 2
    /\ \E k \in 1..2 : Len(read_l.value[k].word_boxes) = 2

(***************************************************************************)
(* The parsers on one element.  A word tag with a title made of tokens     *)
(* separated by "; ", or a line of the character-position dialect with the *)
(* coordinates of its characters, is handed to the parser that reads it.   *)
(***************************************************************************)
MaxTitleTokens == 2
MaxLineText == 3
MaxLineSpans == 2
MaxQuads == 2

S_12_345 == <<"1", "2", " ", "3", "4", "5">>

\* a token of a title: what the engine meant and the characters it wrote
TitleToken(kind, position, confidence, text) ==
    [kind |-> kind, position |-> position, confidence |-> confidence,
     text |-> text]

BboxToken(position) == TitleToken("bbox", position, 0, BboxTitle(position))

WconfToken(confidence) ==
    TitleToken("x_wconf", NonePosition, confidence,
               S_x_wconf \o S_space \o FormatInt(confidence))

\* tokens that are neither a bounding box nor a confidence, and tokens cut
\* short or holding something that is not an integer
OtherTokens ==
    {TitleToken("other", NonePosition, 0, S_baseline),
     TitleToken("bad_bbox", NonePosition, 0, S_bbox_1_2),
     TitleToken("bad_bbox", NonePosition, 0, S_bbox_1_x_3_4),
     TitleToken("bad_x_wconf", NonePosition, 0, S_x_wconf)}

TitleTokens ==
    {BboxToken(<< <<1, 2>>, <<3, 4>> >>), BboxToken(<< <<-3, 10>>, <<25, 7>> >>),
     WconfToken(87), WconfToken(5)} \cup OtherTokens

\* the tokens joined by "; "
RECURSIVE JoinTokens(_)
JoinTokens(tokens) ==
    IF tokens = <<>> THEN <<>>
    ELSE IF Len(tokens) = 1 THEN tokens[1].text
    ELSE tokens[1].text \o S_semicolon_space \o JoinTokens(Tail(tokens))

TitleInputs ==
    {[op |-> "title", tokens |-> ts] :
        ts \in UNION {[1..n -> TitleTokens] : n \in 1..MaxTitleTokens}}

\* a word tag with the given title around the text "a"
WordTagEvents(title) ==
    <<StartTag("span", << <<"class", "ocrx_word">>, <<"title", title>> >>),
      Data(S_a), EndTag("span")>>

\* the four coordinates the engine reports for the m-th character of a line
\* that is not a space (m from 0).  "ltr": boxes of width 6 side by side on
\* one baseline; "rtl": right to left, with tops and bottoms going up and down
CharQuad(layout, m) ==
    IF layout = "ltr" THEN <<6 * m, 0, 6 * m + 5, 5>>
    ELSE <<40 - 6 * m, 3 * ((m + 1) % 2), 45 - 6 * m, 10 + 2 * ((m + 1) % 2)>>

Layouts == {"ltr", "rtl"}

\* the coordinate values of the characters of text; a space has no
\* coordinates, or "-1 -1 -1 -1" when the engine marks spaces
RECURSIVE LineCoords(_, _, _, _)
LineCoords(text, layout, markers, m) ==
    IF text = <<>> THEN <<>>
    ELSE IF Head(text) = " "
    THEN (IF markers THEN <<-1, -1, -1, -1>> ELSE <<>>)
             \o LineCoords(Tail(text), layout, markers, m)
    ELSE CharQuad(layout, m) \o LineCoords(Tail(text), layout, markers, m + 1)

\* every text of at most n characters over the alphabet
RECURSIVE TextsUpTo(_, _)
TextsUpTo(alphabet, n) ==
    IF n = 0 THEN {<<>>}
    ELSE LET shorter == TextsUpTo(alphabet, n - 1)
         IN  shorter \cup {Append(t, c) : t \in shorter, c \in alphabet}

LineTexts == TextsUpTo({"a", "b", " "}, MaxLineText) \cup {S_12_345}

LineInputs ==
    {[op |-> "line", text |-> t, layout |-> l, markers |-> mk, trailing |-> tr] :
        t \in LineTexts, l \in Layouts, mk \in BOOLEAN, tr \in BOOLEAN}

\* the title of the ocr_cinfo span of a line input; some engines end it
\* with a space
LineInputTitle(in) ==
    CinfoTitle(LineCoords(in.text, in.layout, in.markers, 0))
        \o (IF in.trailing THEN S_space ELSE <<>>)

\* the events of a line input
LineInputEvents(in) ==
    <<StartTag("span", << <<"class", "ocr_line">>,
                          <<"title", BboxTitle(EngineLinePosition(1))>> >>),
      Data(in.text),
      StartTag("span", << <<"class", "ocr_cinfo">>,
                          <<"title", LineInputTitle(in)>> >>),
      EndTag("span"),
      EndTag("span")>>

\* the quadruple that marks a space
SpaceMarker == <<-1, -1, -1, -1>>

\* the quadruples of an ocr_cinfo title: the marker of a space, two
\* characters inside the image, and a character that starts one pixel left
\* of the image
CinfoQuads == {SpaceMarker, <<0, 0, 5, 5>>, <<6, 1, 11, 6>>, <<-1, 0, 4, 5>>}

RECURSIVE QuadValues(_)
QuadValues(quads) ==
    IF quads = <<>> THEN <<>> ELSE Head(quads) \o QuadValues(Tail(quads))

CinfoInputs ==
    {[op |-> "cinfo", quads |-> qs, trailing |-> tr] :
        qs \in UNION {[1..n -> CinfoQuads] : n \in 0..MaxQuads},
        tr \in BOOLEAN}

\* the start tags of a line and of its coordinate element
CinfoInputEvents(in) ==
    <<StartTag("span", << <<"class", "ocr_line">>,
                          <<"title", BboxTitle(EngineLinePosition(1))>> >>),
      StartTag("span", << <<"class", "ocr_cinfo">>,
                          <<"title", CinfoTitle(QuadValues(in.quads))
                                       \o (IF in.trailing THEN S_space ELSE <<>>)>> >>)>>

\* a line whose coordinate element holds the values 1, 2, ... up to any
\* number, whatever the text of the line needs
MaxCoordValues == 12

CoordInputs ==
    {[op |-> "coords", text |-> t, have |-> k, trailing |-> tr] :
        t \in TextsUpTo({"a", "b", " "}, MaxLineText),
        k \in 0..MaxCoordValues, tr \in BOOLEAN}

CoordInputEvents(in) ==
    <<StartTag("span", << <<"class", "ocr_line">>,
                          <<"title", BboxTitle(EngineLinePosition(1))>> >>),
      Data(in.text),
      StartTag("span", << <<"class", "ocr_cinfo">>,
                          <<"title", CinfoTitle([i \in 1..in.have |-> i])
                                       \o (IF in.trailing THEN S_space ELSE <<>>)>> >>),
      EndTag("span"),
      EndTag("span")>>

\* the text fragments html.parser delivers inside the spans
S_b == <<"b">>

S_c == <<"c">>

S_d == <<"d">>

\* the start tag of a span of the given kind, written as span i of its parent
\* (j = 0 at the top of the document): a line, a word, a word with a title
\* that holds no bounding box, a span without attributes, a word without
\* title, a span of another class
SpanOpen(kind, i, j) ==
    CASE kind = "line" ->
           StartTag("span", << <<"class", "ocr_line">>,
                               <<"title", BboxTitle(EngineLinePosition(i + j))>> >>)
      [] kind = "word" ->
           StartTag("span", << <<"class", "ocrx_word">>,
                               <<"title", BboxTitle(EngineWordPosition(i, j))>> >>)
      [] kind = "ignored" ->
           StartTag("span", << <<"class", "ocrx_word">>,
                               <<"title", BadTitle(0)>> >>)
      [] kind = "bare" -> StartTag("span", <<>>)
      [] kind = "no_title" -> StartTag("span", << <<"class", "ocrx_word">> >>)
      [] kind = "other" ->
           StartTag("span", << <<"class", "ocr_par">>,
                               <<"title", BboxTitle(EngineLinePosition(i))>> >>)

\* what a span holds: one text fragment, two text fragments, or text
\* around a span of the given kind
InnerEvents(inner, i, j) ==
    CASE inner = "t1" -> <<Data(S_b)>>
      [] inner = "t2" -> <<Data(S_b), Data(S_c)>>
      [] OTHER -> <<Data(S_b), SpanOpen(inner, i, j), Data(S_c), EndTag("span"),
                    Data(S_d)>>

\* a span that holds no line, or a text fragment between spans
Leaf(kind, inner) == [kind |-> kind, inner |-> inner, children |-> <<>>]

LeafEvents(leaf, i, j) ==
    IF leaf.kind = "text" THEN <<Data(S_a)>>
    ELSE <<SpanOpen(leaf.kind, i, j)>> \o InnerEvents(leaf.inner, i, j)
             \o <<EndTag("span")>>

SpanLeaves ==
    {Leaf("word", inner) : inner \in {"t1", "t2", "bare", "other", "word"}}
        \cup {Leaf(k, "t1") : k \in {"ignored", "bare", "no_title", "other"}}

\* what a line holds: spans, text between them, or a line around a word
LineChildren == SpanLeaves \cup {Leaf("text", "t1"), Leaf("line", "word")}

SpanLines ==
    {[kind |-> "line", inner |-> "t1", children |-> cs] :
        cs \in UNION {[1..n -> LineChildren] : n \in 0..MaxLineSpans}}

RECURSIVE ChildrenEvents(_, _, _)
ChildrenEvents(children, i, j) ==
    IF j > Len(children) THEN <<>>
    ELSE LeafEvents(children[j], i, j) \o ChildrenEvents(children, i, j + 1)

\* the events of a span at the top of the document, written as span i
SpanEvents(span, i) ==
    IF span.kind = "line"
    THEN <<SpanOpen("line", i, 0)>> \o ChildrenEvents(span.children, i, 1)
             \o <<EndTag("span")>>
    ELSE LeafEvents(span, i, 0)

RECURSIVE SpansEvents(_, _)
SpansEvents(spans, i) ==
    IF i > Len(spans) THEN <<>>
    ELSE SpanEvents(spans[i], i) \o SpansEvents(spans, i + 1)

\* a line of one word, and a word outside any line
PlainLine ==
    [kind |-> "line", inner |-> "t1", children |-> <<Leaf("word", "t1")>>]

PlainWord == Leaf("word", "t1")

\* the documents of nested spans: one span, alone or next to a plain line
\* or a plain word
SpanInputs ==
    {[op |-> "spans", spans |-> ss] :
        ss \in UNION {{<<x>>, <<x, PlainLine>>, <<PlainLine, x>>, <<x, PlainWord>>} :
                         x \in SpanLines \cup SpanLeaves}}

\* the states of the parser after each event of feed(); an exception raised
\* by a handler ends the feed
RECURSIVE WordHTMLParser_feed_trace(_, _)
WordHTMLParser_feed_trace(self, events) ==
    IF events = <<>> \/ self.err # "none" THEN <<>>
    ELSE LET next == WordHTMLParser_handle(self, Head(events))
         IN  <<next>> \o WordHTMLParser_feed_trace(next, Tail(events))

InitParse ==
    /\ BoxIdle
    /\ InstIdle
    /\ BuilderIdle
    /\ FileIdle
    /\ EngineIdle
    /\ parse_in \in TitleInputs \cup LineInputs \cup SpanInputs \cup CinfoInputs
                     \cup CoordInputs
    /\ parse_out = None

\* a word tag with the title is fed to the Tesseract-dialect parser
WordHTMLParser_feed_word_tag ==
    /\ parse_in.op = "title"
    /\ parse_out = None
    /\ LET title == JoinTokens(parse_in.tokens)
       IN  parse_out' =
             [confidence |-> parse_confidence(title),
              position |-> parse_position(title),
              parser |-> WordHTMLParser_feed(WordHTMLParser_init,
                                            WordTagEvents(title))]
    /\ UNCHANGED <<parse_in, boxvars, buildervars, filevars, enginevars,
                    instvars>>

\* a line is fed to the character-position parser
LineHTMLParser_feed_line ==
    /\ parse_in.op = "line"
    /\ parse_out = None
    /\ parse_out' = LineHTMLParser_feed(LineHTMLParser_init,
                                        LineInputEvents(parse_in))
    /\ UNCHANGED <<parse_in, boxvars, buildervars, filevars, enginevars,
                    instvars>>

\* a document of nested spans is fed to the Tesseract-dialect parser
WordHTMLParser_feed_spans ==
    /\ parse_in.op = "spans"
    /\ parse_out = None
    /\ parse_out' = WordHTMLParser_feed_trace(WordHTMLParser_init,
                                              SpansEvents(parse_in.spans, 1))
    /\ UNCHANGED <<parse_in, boxvars, buildervars, filevars, enginevars,
                    instvars>>

\* the start tags of a line and of its coordinate element are fed to the
\* character-position parser
LineHTMLParser_feed_cinfo ==
    /\ parse_in.op = "cinfo"
    /\ parse_out = None
    /\ parse_out' = LineHTMLParser_feed(LineHTMLParser_init,
                                        CinfoInputEvents(parse_in))
    /\ UNCHANGED <<parse_in, boxvars, buildervars, filevars, enginevars,
                    instvars>>

\* a line with any number of coordinates is fed to the character-position
\* parser
LineHTMLParser_feed_coords ==
    /\ parse_in.op = "coords"
    /\ parse_out = None
    /\ parse_out' = LineHTMLParser_feed(LineHTMLParser_init,
                                        CoordInputEvents(parse_in))
    /\ UNCHANGED <<parse_in, boxvars, buildervars, filevars, enginevars,
                    instvars>>

NextParse ==
    \/ WordHTMLParser_feed_word_tag
    \/ LineHTMLParser_feed_line
    \/ WordHTMLParser_feed_spans
    \/ LineHTMLParser_feed_cinfo
    \/ LineHTMLParser_feed_coords

SpecParse == InitParse /\ [][NextParse]_vars

(***************************************************************************)
(* Claims on the parsers                                                   *)
(***************************************************************************)
LineParsed == parse_in # None /\ parse_in.op = "line" /\ parse_out # None

\* the Box of a word whose characters have the coordinates quads
ExpectedWordBox(word, quads) ==
    Box(word,
        << <<Min({quads[k][1] : k \in 1..Len(quads)}),
             Min({quads[k][2] : k \in 1..Len(quads)})>>,
           <<Max({quads[k][3] : k \in 1..Len(quads)}),
             Max({quads[k][4] : k \in 1..Len(quads)})>> >>,
        0)

\* the boxes of the words of text, read character by character: word holds
\* the characters of the word being read and quads their coordinates
RECURSIVE ExpectedLineBoxes(_, _, _, _, _)
ExpectedLineBoxes(text, layout, m, word, quads) ==
    LET closed == IF word = <<>> THEN <<>>
                  ELSE <<ExpectedWordBox(word, quads)>>
    IN  IF text = <<>> THEN closed
        ELSE IF Head(text) = " "
        THEN closed \o ExpectedLineBoxes(Tail(text), layout, m, <<>>, <<>>)
        ELSE ExpectedLineBoxes(Tail(text), layout, m + 1,
                               Append(word, Head(text)),
                               Append(quads, CharQuad(layout, m)))

\* the coordinate element of the line holds at least one token after
\* "x_bboxes" (a coordinate, a space marker or the empty token a trailing
\* space leaves)
HasCoordinateToken ==
    parse_in.trailing \/ LineCoords(parse_in.text, parse_in.layout,
                                    parse_in.markers, 0) # <<>>

\* C11: the character-position parser splits the text of a line on single
\* spaces, drops the empty tokens and emits one Box per word, in order, whose
\* corners are the minimum left and top and the maximum right and bottom of
\* the quadruples of the word's characters, with confidence 0; the text
\* "12 345" over five quadruples of width 6 gives "12" at ((0,0),(11,5)) and
\* "345" at ((12,0),(29,5)).
C11_WordBoxesFromCharacterPositions ==
    (LineParsed /\ HasCoordinateToken) =>
        /\ parse_out.err = "none"
        /\ parse_out.boxes =
              ExpectedLineBoxes(parse_in.text, parse_in.layout, 0, <<>>, <<>>)
        /\ (parse_in.text = S_12_345 /\ parse_in.layout = "ltr") =>
              parse_out.boxes =
                  <<Box(<<"1", "2">>, << <<0, 0>>, <<11, 5>> >>, 0),
                    Box(<<"3", "4", "5">>, << <<12, 0>>, <<29, 5>> >>, 0)>>

\* reached: a line of two words separated by two spaces, written right to
\* left with space markers, gave two boxes
C11_Witness ==
    /\ LineParsed
    /\ parse_in.text = <<"a", " ", " ", "b">> \/ parse_in.text = S_12_345
    /\ parse_in.layout = "rtl"
    /\ parse_in.markers
    /\ Len(parse_out.boxes) = 2

(***************************************************************************)
(* Claims on tags without a valid bounding box                             *)
(***************************************************************************)
\* the Box the engine meant by a word tag with a valid title
EngineWordBox(kind, i, j) ==
    IF kind = "word"
    THEN Box(S_a, EngineWordPosition(i, j), EngineConfidence(i))
    ELSE Box(<<>>, EngineWordPosition(i, j), 0)

\* the boxes of the word tags with a valid title among kinds, in order
RECURSIVE EngineWordBoxes(_, _, _)
EngineWordBoxes(kinds, i, j) ==
    IF kinds = <<>> THEN <<>>
    ELSE (IF Head(kinds) = "word_bad" THEN <<>>
          ELSE <<EngineWordBox(Head(kinds), i, j)>>)
             \o EngineWordBoxes(Tail(kinds), i, j + 1)

\* the boxes of the word tags with a valid title of the i-th piece
PieceBoxes(piece, i) ==
    IF piece.kind = "line" THEN EngineWordBoxes(piece.words, i, 1)
    ELSE IF piece.kind \in WordKinds THEN EngineWordBoxes(<<piece.kind>>, i, 0)
    ELSE <<>>

\* the line of the i-th piece, when it is a line tag with a valid title
PieceLines(piece, i) ==
    IF piece.kind \in {"line", "cuneiform", "cuneiform_short"}
    THEN <<LineBox(PieceBoxes(piece, i), EngineLinePosition(i))>>
    ELSE <<>>

RECURSIVE DocumentBoxes(_, _)
DocumentBoxes(ps, i) ==
    IF i > Len(ps) THEN <<>>
    ELSE PieceBoxes(ps[i], i) \o DocumentBoxes(ps, i + 1)

RECURSIVE DocumentLines(_, _)
DocumentLines(ps, i) ==
    IF i > Len(ps) THEN <<>>
    ELSE PieceLines(ps[i], i) \o DocumentLines(ps, i + 1)

HasKind(ps, kinds) == \E i \in 1..Len(ps) : ps[i].kind \in kinds

HasBadWord(ps) ==
    \E i \in 1..Len(ps) :
        \/ ps[i].kind = "word_bad"
        \/ \E j \in 1..Len(ps[i].words) : ps[i].words[j] = "word_bad"

\* the engine wrote spans that all close and line tags that all have a valid
\* bounding box
ValidButForWords ==
    written = None /\ plain = NoneText /\ ~HasKind(pieces, {"bare_span", "line_bad"})

\* C12: a word tag whose title holds no valid bounding box yields no Box and
\* does not end the parse: the boxes are those of the other word tags, in
\* document order, and each line holds those of its own word tags.
C12_BadWordTagIsSkipped ==
    (ValidButForWords /\ HasBadWord(pieces)) =>
        LET w == WordParse
            boxes == DocumentBoxes(pieces, 1)
            lines == DocumentLines(pieces, 1)
        IN  /\ w.err = "none"
            /\ w.boxes = boxes
            /\ w.lines = lines
            /\ (read_w # None /\ boxes # <<>>) =>
                  /\ read_w.raised = "none"
                  /\ read_w.value = WithoutEmptyLast(boxes)
            /\ (read_l # None /\ boxes # <<>>) =>
                  /\ read_l.raised = "none"
                  /\ read_l.value = lines

\* reached: two lines, each of a word tag with a valid title and a word tag
\* without, were read into two lines of one word
C12_Witness ==
    /\ ValidButForWords
    /\ pieces = <<Piece("line", <<"word_bad", "word">>),
                  Piece("line", <<"word", "word_bad">>)>>
    /\ read_l # None
    /\ Len(read_l.value) = 2
    /\ read_w # None
    /\ Len(read_w.value) = 2

HasBadLine(ps) == HasKind(ps, {"line_bad"})

\* no span without attributes precedes the first line tag with a bad title
BadLineComesFirst ==
    \E i \in 1..Len(pieces) :
        /\ pieces[i].kind = "line_bad"
        /\ \A k \in 1..(i - 1) : pieces[k].kind # "bare_span"

\* C13: a line tag whose title holds no valid bounding box ends the
\* Tesseract-dialect parse in an error: read_file raises, returns no boxes
\* and no lines, and the tag is not skipped.
C13_BadLineTagIsFatal ==
    (written = None /\ plain = NoneText /\ BadLineComesFirst) =>
        /\ WordParse.err \in {"Exception", "IndexError", "ValueError"}
        /\ read_w # None =>
              /\ read_w.raised = WordParse.err
              /\ read_w.value = <<>>
        /\ read_l # None =>
              /\ read_l.raised = WordParse.err
              /\ read_l.value = <<>>

\* reached: a line of one word followed by a line tag without bounding box
\* was read by both builders, and both raised
C13_Witness ==
    /\ pieces = <<Piece("line", <<"word">>), Piece("line_bad", <<>>)>>
    /\ read_w # None /\ read_w.raised # "none"
    /\ read_l # None /\ read_l.raised # "none"
    /\ Len(WordParse.boxes) = 1

(***************************************************************************)
(* Claims on the title of a word tag                                       *)
(***************************************************************************)
TitleParsed == parse_in # None /\ parse_in.op = "title" /\ parse_out # None

\* the index of the first token of tokens whose kind is in kinds, 0 if none
FirstToken(tokens, kinds) ==
    LET found == {i \in 1..Len(tokens) : tokens[i].kind \in kinds}
    IN  IF found = {} THEN 0 ELSE Min(found)

\* the first token that starts with "bbox", the first that starts with
\* "x_wconf"
FirstBbox == FirstToken(parse_in.tokens, {"bbox", "bad_bbox"})

FirstWconf == FirstToken(parse_in.tokens, {"x_wconf", "bad_x_wconf"})

S_bbox_1_2_3_4_x_wconf_87 ==
    <<"b", "b", "o", "x", " ", "1", " ", "2", " ", "3", " ", "4", ";", " ",
      "x", "_", "w", "c", "o", "n", "f", " ", "8", "7">>

\* C14: the title "bbox 1 2 3 4; x_wconf 87" of a word tag yields confidence
\* 87 and position ((1,2),(3,4)); a title with a bbox token and no x_wconf
\* token yields the position with confidence 0 and no error; in general the
\* confidence is the integer after x_wconf and the position the two corners
\* made of the four integers after bbox.
C14_TitleGivesPositionAndConfidence ==
    TitleParsed =>
        /\ JoinTokens(parse_in.tokens) = S_bbox_1_2_3_4_x_wconf_87 =>
              /\ parse_out.confidence = Return(87)
              /\ parse_out.position = Return(<< <<1, 2>>, <<3, 4>> >>)
              /\ parse_out.parser.boxes =
                    <<Box(S_a, << <<1, 2>>, <<3, 4>> >>, 87)>>
        /\ (FirstBbox # 0 /\ parse_in.tokens[FirstBbox].kind = "bbox") =>
              /\ parse_out.position = Return(parse_in.tokens[FirstBbox].position)
              /\ FirstWconf = 0 =>
                    /\ parse_out.confidence = Return(0)
                    /\ parse_out.parser.err = "none"
                    /\ parse_out.parser.boxes =
                          <<Box(S_a, parse_in.tokens[FirstBbox].position, 0)>>
              /\ (FirstWconf # 0 /\ parse_in.tokens[FirstWconf].kind = "x_wconf") =>
                    /\ parse_out.confidence =
                          Return(parse_in.tokens[FirstWconf].confidence)
                    /\ parse_out.parser.err = "none"
                    /\ parse_out.parser.boxes =
                          <<Box(S_a, parse_in.tokens[FirstBbox].position,
                                parse_in.tokens[FirstWconf].confidence)>>

\* reached: the title "bbox 1 2 3 4; x_wconf 87" was parsed into a box
C14_Witness ==
    /\ TitleParsed
    /\ JoinTokens(parse_in.tokens) = S_bbox_1_2_3_4_x_wconf_87
    /\ Len(parse_out.parser.boxes) = 1

\* reached: a title with a confidence before a negative bounding box and no
\* other token was parsed into a box
C14_WitnessWconfFirst ==
    /\ TitleParsed
    /\ parse_in.tokens = <<WconfToken(5), BboxToken(<< <<-3, 10>>, <<25, 7>> >>)>>
    /\ Len(parse_out.parser.boxes) = 1

(***************************************************************************)
(* Claims on LineBox.content                                               *)
(***************************************************************************)
\* the contents of the boxes with one space between consecutive contents
RECURSIVE JoinSpaces(_)
JoinSpaces(boxes) ==
    IF boxes = <<>> THEN <<>>
    ELSE IF Len(boxes) = 1 THEN boxes[1].content
    ELSE boxes[1].content \o <<" ">> \o JoinSpaces(Tail(boxes))

NoSpaceAtEnds(txt) ==
    txt = <<>> \/ (txt[1] \notin Whitespace /\ txt[Len(txt)] \notin Whitespace)

BuiltLines == IF IsLineBoxBuilder THEN builder.lines ELSE <<>>

\* C15 as claimed: the content of every LineBox is the contents of its word
\* boxes joined by single spaces, in word-list order, and has no leading or
\* trailing space, after every append of a word box.
C15_ContentIsJoinOfWords ==
    \A k \in 1..Len(BuiltLines) :
        /\ LineBox_content(BuiltLines[k]) = JoinSpaces(BuiltLines[k].word_boxes)
        /\ NoSpaceAtEnds(LineBox_content(BuiltLines[k]))

\* C15 as amended: the content of every LineBox is the contents of its word
\* boxes joined by single spaces, in word-list order, with the leading and
\* trailing whitespace of the whole stripped; it is the join itself when the
\* join neither starts nor ends with whitespace.
C15_ContentIsStrippedJoinOfWords ==
    \A k \in 1..Len(BuiltLines) :
        LET joined == JoinSpaces(BuiltLines[k].word_boxes)
            content == LineBox_content(BuiltLines[k])
        IN  /\ content = Strip(joined)
            /\ NoSpaceAtEnds(content)
            /\ NoSpaceAtEnds(joined) => content = joined

\* reached: a word was just appended to a line that begins with a box of
\* empty content and holds two boxes with a content
C15_Witness ==
    /\ IsLineBoxBuilder
    /\ call # None /\ call.op = "add_word"
    /\ \E k \in 1..Len(builder.lines) :
          /\ Len(builder.lines[k].word_boxes) = 3
          /\ builder.lines[k].word_boxes[1].content = <<>>
          /\ builder.lines[k].word_boxes[2].content = <<"a">>
          /\ builder.lines[k].word_boxes[3].content = <<"b">>

(***************************************************************************)
(* Claims on LineBoxBuilder.write_file followed by read_file               *)
(***************************************************************************)
LinesWrittenThenRead ==
    /\ written # None
    /\ written.builder = "LineBoxBuilder"
    /\ read_l # None

\* the number of events of the document that satisfy Test
CountEvents(events, Test(_)) ==
    Cardinality({i \in 1..Len(events) : Test(events[i])})

IsLineOpen(ev) ==
    /\ ev.type = "starttag" /\ ev.tag = "span"
    /\ ev.attrs # <<>> /\ ev.attrs[1] = <<"class", "ocr_line">>

IsWordOpen(ev) ==
    /\ ev.type = "starttag" /\ ev.tag = "span"
    /\ ev.attrs # <<>> /\ ev.attrs[1] = <<"class", "ocrx_word">>

IsSpaceText(ev) == ev.type = "data" /\ ev.data = S_space

RECURSIVE SumLens(_)
SumLens(lines) ==
    IF lines = <<>> THEN 0
    ELSE Len(Head(lines).word_boxes) + SumLens(Tail(lines))

RECURSIVE SumGaps(_)
SumGaps(lines) ==
    IF lines = <<>> THEN 0
    ELSE (IF Head(lines).word_boxes = <<>> THEN 0
          ELSE Len(Head(lines).word_boxes) - 1) + SumGaps(Tail(lines))

\* the lines read are the lines written: as many, in the same order, each
\* with the same position and the same word boxes
SameLines(got, expected) ==
    /\ Len(got) = Len(expected)
    /\ \A k \in 1..Len(expected) :
          /\ got[k].position = expected[k].position
          /\ SameBoxes(got[k].word_boxes, expected[k].word_boxes)

\* one ocr_line span per line, one word span per word box, one single-space
\* text node per pair of consecutive words
WrittenAsNestedSpans ==
    /\ CountEvents(doc, IsLineOpen) = Len(written.output)
    /\ CountEvents(doc, IsWordOpen) = SumLens(written.output)
    /\ CountEvents(doc, IsSpaceText) = SumGaps(written.output)

\* C16: LineBoxBuilder.write_file writes each line as one ocr_line span
\* holding its word spans in order with one single-space text node between
\* consecutive words, and LineBoxBuilder.read_file on that document returns
\* the same number of lines, in order, each with the same position and the
\* same word boxes (content, position, confidence).
C16_LinesRoundTrip ==
    LinesWrittenThenRead =>
        /\ WrittenAsNestedSpans
        /\ read_l.raised = "none"
        /\ SameLines(read_l.value, written.output)

(***************************************************************************)
(* image_to_string of the two command-line tools.  The engine is a process *)
(* that ends with a status and leaves output files; a file is absent, or   *)
(* holds something read_file returns a result for ("good"), or something   *)
(* read_file raises on ("bad").                                            *)
(***************************************************************************)
\* the attributes BaseBuilder.__init__ stores, for each builder class
BuilderAttributes(kind) ==
    CASE kind = "TextBuilder" ->
           [kind |-> kind, file_extensions |-> <<"txt">>,
            tesseract_configs |-> <<>>]
      [] kind = "DigitBuilder" ->
           [kind |-> kind, file_extensions |-> <<"txt">>,
            tesseract_configs |-> <<"digits">>]
      [] kind = "WordBoxBuilder" ->
           [kind |-> kind, file_extensions |-> <<"html", "hocr">>,
            tesseract_configs |-> <<"hocr">>]
      [] kind = "LineBoxBuilder" ->
           [kind |-> kind, file_extensions |-> <<"html", "hocr">>,
            tesseract_configs |-> <<"hocr">>]
      [] kind = "DigitLineBoxBuilder" ->
           [kind |-> kind, file_extensions |-> <<"html", "hocr">>,
            tesseract_configs |-> <<"hocr", "digits">>]
      [] kind = "CharBoxBuilder" ->
           [kind |-> kind, file_extensions |-> <<"box">>,
            tesseract_configs |-> <<"batch.nochop", "makebox">>]

BuilderKinds ==
    {"TextBuilder", "DigitBuilder", "WordBoxBuilder", "LineBoxBuilder",
     "DigitLineBoxBuilder", "CharBoxBuilder"}

\* the builder argument of image_to_string: an instance, or None
BuilderArguments == {BuilderAttributes(k) : k \in BuilderKinds} \cup {None}

\* if builder is None: builder = builders.TextBuilder()
DefaultBuilder(b) == IF b = None THEN BuilderAttributes("TextBuilder") ELSE b

Languages == {"None", "eng"}

FileStates == {"absent", "good", "bad"}

Range(seq) == {seq[i] : i \in 1..Len(seq)}

\* what the engine left for each extension of the builder
OutputFiles(b) == [Range(b.file_extensions) -> FileStates]

NoFiles(b) == [e \in Range(b.file_extensions) |-> "absent"]

\* the value builder.read_file returns on the file with the extension
ReadOf(b, extension) == [read_by |-> b.kind, file |-> extension]

\* a call of image_to_string that has just resolved its builder
NewRun(tool, lang, b, pc) ==
    [tool |-> tool, lang |-> lang, builder |-> b, pc |-> pc,
     engine_runs |-> 0, status |-> 0, files |-> NoFiles(b),
     next |-> 1, tested_files |-> <<>>, opened |-> <<>>,
     result |-> None, raised |-> "none"]

InitEngine ==
    /\ BoxIdle
    /\ InstIdle
    /\ BuilderIdle
    /\ FileIdle
    /\ ParseIdle
    /\ run = None

\* tesseract.image_to_string up to the call of run_tesseract
tesseract_image_to_string ==
    \E b \in BuilderArguments, lang \in Languages :
        /\ run = None
        /\ run' = NewRun("tesseract", lang, DefaultBuilder(b), "run_tesseract")
        /\ UNCHANGED <<boxvars, buildervars, filevars, parsevars,
                    instvars>>

\* the exit status of the engine process: 0, an error code, or the
\* negated number of the signal that ended it
ExitStatuses == {0, 1, -1}

\* the status test that lets every call through
StatusFails_never(status) == FALSE

\* `if status:` and `if retcode:`
StatusFails(status) == status # 0

\* run_tesseract and the test of its status; the engine may have left
\* output files whatever its status
tesseract_run_tesseract ==
    /\ run # None /\ run.pc = "run_tesseract"
    /\ \E status \in ExitStatuses, files \in OutputFiles(run.builder) :
          run' = IF StatusFails(status)
                 THEN [run EXCEPT !.engine_runs = @ + 1, !.status = status,
                                  !.files = files,
                                  !.raised = "TesseractError", !.pc = "done"]
                 ELSE [run EXCEPT !.engine_runs = @ + 1, !.files = files,
                                  !.pc = "probe"]
    /\ UNCHANGED <<boxvars, buildervars, filevars, parsevars,
                    instvars>>

\* one iteration of the loop over the extensions that opens the file, reads
\* it and goes on to the next extension
tesseract_try_extension_read_all(r) ==
    LET extension == r.builder.file_extensions[r.next]
        tested == [r EXCEPT !.tested_files = Append(@, extension),
                            !.next = @ + 1]
    IN  IF r.files[extension] = "absent" THEN tested
        ELSE IF r.files[extension] = "bad"
        THEN [tested EXCEPT !.opened = Append(@, extension),
                            !.raised = "Exception", !.pc = "done"]
        ELSE [tested EXCEPT !.opened = Append(@, extension),
                            !.result = ReadOf(r.builder, extension)]

\* one iteration of the loop of tesseract.image_to_string over the
\* extensions of the builder
tesseract_try_extension(r) ==
    LET extension == r.builder.file_extensions[r.next]
        tested == [r EXCEPT !.tested_files = Append(@, extension),
                            !.next = @ + 1]
    IN  IF r.files[extension] = "absent" THEN tested
        ELSE IF r.files[extension] = "bad"
        THEN [tested EXCEPT !.opened = Append(@, extension),
                            !.raised = "Exception", !.pc = "done"]
        ELSE [tested EXCEPT !.opened = Append(@, extension),
                            !.result = ReadOf(r.builder, extension),
                            !.pc = "done"]

tesseract_probe ==
    /\ run # None /\ run.pc = "probe"
    /\ run.next <= Len(run.builder.file_extensions)
    /\ run' = tesseract_try_extension(run)
    /\ UNCHANGED <<boxvars, buildervars, filevars, parsevars,
                    instvars>>

\* the end of the loop: raise TesseractError(-1, "Unable to find ...")
tesseract_no_output_file ==
    /\ run # None /\ run.pc = "probe"
    /\ run.next > Len(run.builder.file_extensions)
    /\ run' = [run EXCEPT !.raised = "TesseractError", !.pc = "done"]
    /\ UNCHANGED <<boxvars, buildervars, filevars, parsevars,
                    instvars>>

\* cuneiform.image_to_string up to the test of the configuration tokens
cuneiform_image_to_string ==
    \E b \in BuilderArguments, lang \in Languages :
        /\ run = None
        /\ run' = NewRun("cuneiform", lang, DefaultBuilder(b), "check_digits")
        /\ UNCHANGED <<boxvars, buildervars, filevars, parsevars,
                    instvars>>

cuneiform_digits_ignored(tesseract_configs) == FALSE

\* "digits" in builder.tesseract_configs
cuneiform_digits_refused(tesseract_configs) ==
    "digits" \in Range(tesseract_configs)

cuneiform_check_digits ==
    /\ run # None /\ run.pc = "check_digits"
    /\ run' = IF cuneiform_digits_refused(run.builder.tesseract_configs)
              THEN [run EXCEPT !.raised = "NotImplementedError", !.pc = "done"]
              ELSE [run EXCEPT !.pc = "run_cuneiform"]
    /\ UNCHANGED <<boxvars, buildervars, filevars, parsevars,
                    instvars>>

\* the cuneiform process, the test of its status and the read of the
\* temporary output file, named after builder.file_extensions[0]
cuneiform_run_cuneiform ==
    \E retcode \in ExitStatuses, state \in {"good", "bad"} :
        /\ run # None
        /\ run.pc = "run_cuneiform"
        /\ LET extension == run.builder.file_extensions[1]
               ran == [run EXCEPT !.engine_runs = @ + 1, !.status = retcode,
                                  !.pc = "done"]
           IN  run' = IF StatusFails(retcode)
                      THEN [ran EXCEPT !.files[extension] = state,
                                       !.raised = "CuneiformError"]
                      ELSE IF state = "bad"
                      THEN [ran EXCEPT !.files[extension] = state,
                                       !.opened = Append(@, extension),
                                       !.raised = "Exception"]
                      ELSE [ran EXCEPT !.files[extension] = state,
                                       !.opened = Append(@, extension),
                                       !.result = ReadOf(run.builder, extension)]
        /\ UNCHANGED <<boxvars, buildervars, filevars, parsevars,
                    instvars>>

NextEngine ==
    \/ tesseract_image_to_string
    \/ tesseract_run_tesseract
    \/ tesseract_probe
    \/ tesseract_no_output_file
    \/ cuneiform_image_to_string
    \/ cuneiform_check_digits
    \/ cuneiform_run_cuneiform

SpecEngine == InitEngine /\ [][NextEngine]_vars

(***************************************************************************)
(* Claims on image_to_string                                               *)
(***************************************************************************)
CuneiformWithDigits ==
    /\ run # None
    /\ run.tool = "cuneiform"
    /\ "digits" \in Range(run.builder.tesseract_configs)

\* C17: cuneiform.image_to_string with a builder whose configuration tokens
\* include "digits" raises NotImplementedError; the engine is never run and
\* no output is read, at any point of the call.
C17_CuneiformRefusesDigits ==
    CuneiformWithDigits =>
        /\ run.engine_runs = 0
        /\ run.opened = <<>>
        /\ run.result = None
        /\ run.raised \in {"none", "NotImplementedError"}
        /\ run.pc = "done" => run.raised = "NotImplementedError"

\* reached: the call with a DigitLineBoxBuilder ended, and the call with a
\* DigitBuilder would end the same way
C17_Witness ==
    /\ CuneiformWithDigits
    /\ run.builder.kind = "DigitLineBoxBuilder"
    /\ run.pc = "done"
    /\ "digits" \in Range(BuilderAttributes("DigitBuilder").tesseract_configs)

TesseractProbed ==
    /\ run # None
    /\ run.tool = "tesseract"
    /\ run.pc = "done"
    /\ run.status = 0

\* the index of the first extension of the builder whose file exists, 0 when
\* there is none
FirstExisting ==
    LET existing == {i \in 1..Len(run.builder.file_extensions) :
                        run.files[run.builder.file_extensions[i]] # "absent"}
    IN  IF existing = {} THEN 0 ELSE Min(existing)

\* C18: tesseract.image_to_string tries the extensions of the builder in
\* list order, returns what read_file gives on the first one whose file
\* exists and never opens a later one; when no file exists it raises
\* TesseractError.
C18_FirstExistingExtensionIsRead ==
    /\ (run # None /\ run.tool = "tesseract") =>
          /\ Len(run.opened) <= 1
          /\ run.tested_files =
                SubSeq(run.builder.file_extensions, 1, Len(run.tested_files))
    /\ TesseractProbed =>
          IF FirstExisting = 0
          THEN /\ run.raised = "TesseractError"
               /\ run.result = None
               /\ run.opened = <<>>
               /\ run.tested_files = run.builder.file_extensions
          ELSE LET extension == run.builder.file_extensions[FirstExisting]
               IN  /\ run.opened = <<extension>>
                   /\ run.tested_files =
                         SubSeq(run.builder.file_extensions, 1, FirstExisting)
                   /\ run.files[extension] = "good" =>
                         /\ run.raised = "none"
                         /\ run.result = ReadOf(run.builder, extension)
                   /\ run.files[extension] = "bad" =>
                         /\ run.raised = "Exception"
                         /\ run.result = None

\* reached: the file of the first extension was absent and the file of the
\* second was read
C18_Witness ==
    /\ TesseractProbed
    /\ run.builder.file_extensions = <<"html", "hocr">>
    /\ run.files["html"] = "absent"
    /\ run.result = ReadOf(run.builder, "hocr")

\* reached: both files existed and only the first was read
C18_WitnessBothExist ==
    /\ TesseractProbed
    /\ run.files = [e \in {"html", "hocr"} |-> "good"]
    /\ run.result = ReadOf(run.builder, "html")
    /\ run.opened = <<"html">>

(***************************************************************************)
(* Claims on the shape of what read_file returns                           *)
(***************************************************************************)
\* the characters the files of the engines are made of
TextChars ==
    Whitespace \cup Range(DigitChars) \cup {"a", "b", "c", "x", "<", "-", "&", ";"}

\* a str
IsText(v) == \A i \in 1..Len(v) : v[i] \in TextChars

\* a Box: content, position as two corners, confidence
IsBox(v) ==
    /\ DOMAIN v = {"content", "position", "confidence"}
    /\ IsText(v.content)
    /\ v.confidence \in Int
    /\ Len(v.position) = 2
    /\ \A c \in 1..2 : Len(v.position[c]) = 2 /\ v.position[c][1] \in Int

\* a LineBox: word boxes, each one a Box, and a position
IsLineBox(v) ==
    /\ DOMAIN v = {"word_boxes", "position"}
    /\ \A j \in 1..Len(v.word_boxes) : IsBox(v.word_boxes[j])
    /\ Len(v.position) = 2

Returned(r) == r # None /\ r.raised = "none"

\* C19: whatever the file holds, TextBuilder.read_file returns a string,
\* WordBoxBuilder.read_file a flat list of Box, LineBoxBuilder.read_file a
\* list of LineBox holding Box values, CharBoxBuilder.read_file a list of
\* Box, whichever parser produced the result and when it is empty.
C19_ShapeFollowsBuilder ==
    /\ read_t # None => (Returned(read_t) /\ IsText(read_t.value))
    /\ Returned(read_w) =>
          \A i \in 1..Len(read_w.value) : IsBox(read_w.value[i])
    /\ Returned(read_l) =>
          \A k \in 1..Len(read_l.value) : IsLineBox(read_l.value[k])
    /\ Returned(read_c) =>
          \A i \in 1..Len(read_c.value) : IsBox(read_c.value[i])

\* reached: the four builders have read a box file of two lines; the
\* CharBoxBuilder found two boxes and the TextBuilder the text
C19_Witness ==
    /\ plain = JoinTextLines(<<S_a_1_2_3_4_0, S_b_5_6_17_8_0>>)
    /\ Returned(read_t) /\ Len(read_t.value) = Len(plain) - 1
    /\ Returned(read_c) /\ Len(read_c.value) = 2
    /\ Returned(read_w) /\ read_w.value = <<>>
    /\ Returned(read_l) /\ read_l.value = <<>>

\* reached: the two hOCR builders have read a file of the character-position
\* dialect, and both returned boxes
C19_WitnessFallback ==
    /\ pieces # <<>>
    /\ TesseractYieldsNoBox
    /\ Returned(read_w) /\ read_w.value # <<>>
    /\ Returned(read_l) /\ read_l.value # <<>>

(***************************************************************************)
(* Claims on the lines of the character-position dialect                   *)
(***************************************************************************)
FellBackToCharacterPositions ==
    /\ read_l # None
    /\ read_l.fed = BothParsers
    /\ read_l.raised = "none"

\* C20: when LineBoxBuilder.read_file falls back to the character-position
\* parser, it returns one LineBox per box of that parser, in the same
\* order, each holding that box alone and placed at the box's position.
C20_OneLinePerFallbackBox ==
    FellBackToCharacterPositions =>
        /\ Len(read_l.value) = Len(LineParse.boxes)
        /\ \A i \in 1..Len(LineParse.boxes) :
              /\ Len(read_l.value[i].word_boxes) = 1
              /\ read_l.value[i].word_boxes[1] = LineParse.boxes[i]
              /\ read_l.value[i].position = LineParse.boxes[i].position

\* reached: two lines of the character-position dialect, of two words each,
\* were read into four lines of one word
C20_Witness ==
    /\ FellBackToCharacterPositions
    /\ Len(pieces) = 2
    /\ \A i \in 1..2 : pieces[i].kind = "cuneiform"
    /\ Len(read_l.value) = 4
    /\ read_l.value[1].position # read_l.value[3].position

(***************************************************************************)
(* Claims on the Tesseract-dialect parser fed with nested spans            *)
(***************************************************************************)
SpansParsed == parse_in # None /\ parse_in.op = "spans" /\ parse_out # None

\* the events fed to the parser
SpanDocument == SpansEvents(parse_in.spans, 1)

IsSpanOpen(ev) == ev.type = "starttag" /\ ev.tag = "span"

IsSpanClose(ev) == ev.type = "endtag" /\ ev.tag = "span"

\* the number of spans open after the first n events
RECURSIVE Depth(_, _)
Depth(events, n) ==
    IF n = 0 THEN 0
    ELSE Depth(events, n - 1)
           + (IF IsSpanOpen(events[n]) THEN 1
              ELSE IF IsSpanClose(events[n]) THEN -1 ELSE 0)

\* the index of the start tag that the end tag at index n closes
OpenOf(events, n) ==
    CHOOSE m \in 1..(n - 1) :
        /\ IsSpanOpen(events[m])
        /\ Depth(events, m - 1) = Depth(events, n)
        /\ \A k \in (m + 1)..(n - 1) : Depth(events, k) > Depth(events, n)

\* the parser after the first n events (n = 0: as constructed)
ParserAfter(n) == IF n = 0 THEN WordHTMLParser_init ELSE parse_out[n]

\* the stack entries under which a span may be closed: its class, or
\* "ignore" for a word whose title was refused
EntriesOf(ev) ==
    LET class == LastAttr(ev.attrs, "class", None)
    IN  IF class = None THEN {} ELSE {class.value, "ignore"}

\* C22: the stack of open tag types stays matched to the nesting of the
\* spans: it is never popped while empty, it holds one entry per open span
\* after every event, and every end tag pops the entry pushed by its own
\* start tag, also for spans without class or without title.
C22_StackMatchesNesting ==
    SpansParsed =>
        \A n \in 1..Len(parse_out) :
            /\ parse_out[n].err # "IndexError"
            /\ parse_out[n].err = "none" =>
                  Len(parse_out[n].tag_types) = Depth(SpanDocument, n)
            /\ (parse_out[n].err = "none" /\ IsSpanClose(SpanDocument[n])) =>
                  LET before == ParserAfter(n - 1).tag_types
                  IN  before[Len(before)]
                          \in EntriesOf(SpanDocument[OpenOf(SpanDocument, n)])

\* the document holds a span without class, or without title
HasUnstackedSpan(events) ==
    \E n \in 1..Len(events) :
        /\ IsSpanOpen(events[n])
        /\ \/ LastAttr(events[n].attrs, "class", None) = None
           \/ LastAttr(events[n].attrs, "title", None) = None

\* the stack is matched to the nesting in the documents where every span
\* has a class and a title
C22_MatchedWhenEverySpanHasClassAndTitle ==
    (SpansParsed /\ ~HasUnstackedSpan(SpanDocument)) =>
        /\ Len(parse_out) = Len(SpanDocument)
        /\ \A n \in 1..Len(parse_out) :
              /\ parse_out[n].err = "none"
              /\ Len(parse_out[n].tag_types) = Depth(SpanDocument, n)

\* the end tag at index n closes a line tag
ClosesLine(events, n) ==
    /\ IsSpanClose(events[n])
    /\ LET class == LastAttr(events[OpenOf(events, n)].attrs, "class", None)
       IN  class # None /\ class.value \in LINE_TAG_TYPES

\* a LineBox was emitted by the handler of event n
LineEmittedAt(n) == Len(parse_out[n].lines) = Len(ParserAfter(n - 1).lines) + 1

\* the word boxes closed by the events m + 1 .. n
BoxesClosedBetween(m, n) ==
    SubSeq(parse_out[n].boxes, Len(parse_out[m].boxes) + 1, Len(parse_out[n].boxes))

\* the bounding box in the title of the start tag ev
PositionOfTag(ev) == parse_position(LastAttr(ev.attrs, "title", None).value).val

RECURSIVE CountWords(_)
CountWords(lines) ==
    IF lines = <<>> THEN 0
    ELSE Len(Head(lines).word_boxes) + CountWords(Tail(lines))

\* the LineBox emitted by the end tag at index n holds the word boxes
\* closed since the start tag it closes, at the bounding box of that tag;
\* the accumulator is empty and the lines hold no more words than were closed
LineHoldsItsOwnWords(n) ==
    LET m == OpenOf(SpanDocument, n)
        line == parse_out[n].lines[Len(parse_out[n].lines)]
    IN  /\ line.word_boxes = BoxesClosedBetween(m, n)
        /\ line.position = PositionOfTag(SpanDocument[m])
        /\ parse_out[n].current_line_content = <<>>
        /\ CountWords(parse_out[n].lines) <= Len(parse_out[n].boxes)

\* the start tag at index k is still open after the first n events
OpenAfter(events, k, n) ==
    /\ k <= n
    /\ \A c \in (k + 1)..n :
          IsSpanClose(events[c]) => OpenOf(events, c) # k

IsLineTag(ev) ==
    /\ IsSpanOpen(ev)
    /\ LET class == LastAttr(ev.attrs, "class", None)
       IN  class # None /\ class.value \in LINE_TAG_TYPES

\* a line tag is opened while another line tag is open
HasLineInLine(events) ==
    \E k \in 1..Len(events) : \E m \in (k + 1)..Len(events) :
        /\ IsLineTag(events[k]) /\ IsLineTag(events[m])
        /\ OpenAfter(events, k, m)

\* C23: each LineBox emitted on a line close holds exactly the word boxes
\* closed between the open and the close of that line, in closing order,
\* at the bounding box of that line's own tag; the accumulator is empty
\* after the close, and no word box is in the word lists of two LineBoxes.
C23_LineHoldsItsOwnWords ==
    SpansParsed =>
        \A n \in 1..Len(parse_out) :
            (ClosesLine(SpanDocument, n) /\ LineEmittedAt(n)) =>
                LineHoldsItsOwnWords(n)

\* C23 as amended: the same, in the documents where no line tag is opened
\* while another line tag is open.
C23_LineHoldsItsOwnWordsUnlessNested ==
    (SpansParsed /\ ~HasLineInLine(SpanDocument)) =>
        \A n \in 1..Len(parse_out) :
            (ClosesLine(SpanDocument, n) /\ LineEmittedAt(n)) =>
                LineHoldsItsOwnWords(n)

\* reached: the first line closed with two word boxes, the second with one
C23_Witness ==
    /\ SpansParsed
    /\ Len(parse_out) = Len(SpanDocument)
    /\ LET last == parse_out[Len(parse_out)]
       IN  /\ last.err = "none"
           /\ Len(last.lines) = 2
           /\ Len(last.lines[1].word_boxes) = 2
           /\ Len(last.lines[2].word_boxes) = 1
           /\ last.lines[1].position # last.lines[2].position
           /\ last.boxes = last.lines[1].word_boxes \o last.lines[2].word_boxes
    /\ ~HasLineInLine(SpanDocument)

\* the start tag ev opens a word
IsWordTag(ev) ==
    /\ IsSpanOpen(ev)
    /\ LET class == LastAttr(ev.attrs, "class", None)
       IN  class # None /\ class.value \in WORD_TAG_TYPES

\* the handler of the start tag at index m began the text of a box
BeginsBox(m) ==
    /\ IsWordTag(SpanDocument[m])
    /\ Len(parse_out[m].tag_types) = Len(ParserAfter(m - 1).tag_types) + 1
    /\ parse_out[m].tag_types[Len(parse_out[m].tag_types)] \in WORD_TAG_TYPES

\* a Box was emitted by the handler of event n
BoxEmittedAt(n) == Len(parse_out[n].boxes) = Len(ParserAfter(n - 1).boxes) + 1

\* the word tag of the Box emitted at n: the last one that began a box
WordTagOf(n) ==
    CHOOSE m \in 1..(n - 1) :
        /\ BeginsBox(m)
        /\ \A k \in (m + 1)..(n - 1) : ~BeginsBox(k)

\* the index of the end tag that closes the start tag at index m
CloseOf(events, m) ==
    CHOOSE c \in (m + 1)..Len(events) :
        IsSpanClose(events[c]) /\ OpenOf(events, c) = m

\* the text fragments of the events first .. last, concatenated in order
RECURSIVE TextBetween(_, _, _)
TextBetween(events, first, last) ==
    IF first > last THEN <<>>
    ELSE (IF events[first].type = "data" THEN events[first].data ELSE <<>>)
             \o TextBetween(events, first + 1, last)

\* a word tag is open when event n is received
WordOpenAt(events, n) ==
    \E k \in 1..(n - 1) : IsWordTag(events[k]) /\ OpenAfter(events, k, n)

\* the content of the Box emitted at n is all the text between the open
\* and the close of its word tag
BoxHoldsItsOwnText(n) ==
    LET m == WordTagOf(n)
        box == parse_out[n].boxes[Len(parse_out[n].boxes)]
    IN  box.content =
            TextBetween(SpanDocument, m + 1, CloseOf(SpanDocument, m) - 1)

\* text received at n while no word tag is open goes to no Box
TextOutsideWordsIsDropped(n) ==
    (SpanDocument[n].type = "data" /\ ~WordOpenAt(SpanDocument, n)) =>
        /\ parse_out[n].current_box_text = NoneText
        /\ parse_out[n].boxes = ParserAfter(n - 1).boxes

\* C25: the content of each emitted Box is the concatenation, in order, of
\* all the text fragments received between the open and the close of its
\* word tag, and text received while no word tag is open is in no Box.
C25_ContentIsTextOfWordTag ==
    SpansParsed =>
        \A n \in 1..Len(parse_out) :
            /\ BoxEmittedAt(n) => BoxHoldsItsOwnText(n)
            /\ TextOutsideWordsIsDropped(n)

\* the same holds in the documents where every span has a class and a
\* title
C25_ContentIsTextWhenEverySpanHasClassAndTitle ==
    (SpansParsed /\ ~HasUnstackedSpan(SpanDocument)) =>
        \A n \in 1..Len(parse_out) :
            /\ BoxEmittedAt(n) => BoxHoldsItsOwnText(n)
            /\ TextOutsideWordsIsDropped(n)

\* reached: a word tag holding text around a span of another class gave a
\* Box of the three fragments
C25_Reached ==
    /\ SpansParsed
    /\ parse_in.spans = <<Leaf("word", "other")>>
    /\ parse_out[Len(parse_out)].boxes =
          <<Box(<<"b", "c", "d">>, EngineWordPosition(1, 0), 0)>>

(***************************************************************************)
(* Claims on the coordinate element of the character-position dialect      *)
(***************************************************************************)
CinfoParsed == parse_in # None /\ parse_in.op = "cinfo" /\ parse_out # None

\* the values of the quadruples that do not mark a space, as the title
\* writes them, in order
RECURSIVE CharacterTokens(_)
CharacterTokens(quads) ==
    IF quads = <<>> THEN <<>>
    ELSE (IF Head(quads) = SpaceMarker THEN <<>>
          ELSE [k \in 1..4 |-> FormatInt(Head(quads)[k])])
             \o CharacterTokens(Tail(quads))

\* C24: the coordinate list read from the title of a coordinate element is
\* the token list of the title without its first token and without exactly
\* the quadruples -1 -1 -1 -1 of the spaces; every other value is kept, in
\* order, and no coordinate of a character that is not a space is removed.
C24_OnlySpaceMarkersAreStripped ==
    (CinfoParsed /\ parse_out.err = "none") =>
        parse_out.char_positions = CharacterTokens(parse_in.quads)

\* no character that is not a space has a coordinate equal to -1
NoCoordinateIsMinusOne(quads) ==
    \A k \in 1..Len(quads) :
        quads[k] = SpaceMarker \/ \A c \in 1..4 : quads[k][c] # -1

\* the same holds when no character has a coordinate equal to -1
C24_StrippedWhenNoCoordinateIsMinusOne ==
    (CinfoParsed /\ parse_out.err = "none"
        /\ NoCoordinateIsMinusOne(parse_in.quads)) =>
        parse_out.char_positions = CharacterTokens(parse_in.quads)

\* reached: a title of a character and the marker of a space was read into
\* the four coordinates of the character
C24_Reached ==
    /\ CinfoParsed
    /\ parse_in.quads = <<<<0, 0, 5, 5>>, SpaceMarker>>
    /\ Len(parse_out.char_positions) = 4

(***************************************************************************)
(* Builder instances as objects.  Every list a constructor or a method     *)
(* evaluates is a cell of heap, and an attribute of an instance holds the  *)
(* index of its cell: two attributes naming one list is a state the model  *)
(* can express, and a call on one instance acts on the cells it reaches.   *)
(***************************************************************************)
MaxOps == 3

\* two instances, constructed one after the other
InstanceNames == {1, 2}

\* the builder classes of builders.py
InstanceClasses ==
    {"TextBuilder", "DigitBuilder", "WordBoxBuilder", "LineBoxBuilder",
     "DigitLineBoxBuilder"}

TextClasses == {"TextBuilder", "DigitBuilder"}

LineClasses == {"LineBoxBuilder", "DigitLineBoxBuilder"}

\* psm_parameter() with Tesseract 4 or later ("-psm" with Tesseract 3)
PsmParameter == "--psm"

\* BaseBuilder.__init__: the attributes name the lists handed to it
BaseBuilder_init(cls, file_extensions, tesseract_flags, tesseract_configs, cuneiform_args) ==
    [cls |-> cls,
     file_extensions |-> file_extensions,
     tesseract_flags |-> tesseract_flags,
     tesseract_configs |-> tesseract_configs,
     cuneiform_args |-> cuneiform_args,
     acc |-> 0]

\* TextBuilder.__init__: tess_flags, file_ext, cun_args, the [] of the super
\* call and built_text are five lists made by this call
TextBuilder_new(h, cls) ==
    LET n == Len(h)
    IN  [heap |-> h \o << <<PsmParameter, "3">>, <<"txt">>, <<"-f", "text">>,
                          <<>>, <<>> >>,
         obj |-> [BaseBuilder_init(cls, n + 2, n + 1, n + 4, n + 3)
                      EXCEPT !.acc = n + 5]]

\* WordBoxBuilder.__init__ and LineBoxBuilder.__init__: tess_flags, file_ext,
\* tess_conf, cun_args and word_boxes / lines are five lists made by this call
BoxBuilder_new(h, cls) ==
    LET n == Len(h)
    IN  [heap |-> h \o << <<PsmParameter, "1">>, <<"html", "hocr">>,
                          <<"hocr">>, <<"-f", "hocr">>, <<>> >>,
         obj |-> [BaseBuilder_init(cls, n + 2, n + 1, n + 3, n + 4)
                      EXCEPT !.acc = n + 5]]

\* self.tesseract_configs.append("digits")
AppendDigits(made) ==
    [made EXCEPT !.heap[made.obj.tesseract_configs] = Append(@, "digits")]

\* cls(): the heap and the new instance
Construct(h, cls) ==
    CASE cls = "TextBuilder" -> TextBuilder_new(h, cls)
      [] cls = "DigitBuilder" -> AppendDigits(TextBuilder_new(h, cls))
      [] cls = "WordBoxBuilder" -> BoxBuilder_new(h, cls)
      [] cls = "LineBoxBuilder" -> BoxBuilder_new(h, cls)
      [] cls = "DigitLineBoxBuilder" -> AppendDigits(BoxBuilder_new(h, cls))

\* one accumulator for all the instances of a class
Accumulator_of_class(os, self) ==
    IF os[1].cls = os[self].cls THEN os[1].acc ELSE os[self].acc

\* self.built_text, self.word_boxes or self.lines
Accumulator(os, self) == os[self].acc

\* a LineBox of self.lines, with the list its word_boxes attribute names
LineAt(h, ref) == LineBox(h[ref.word_boxes], ref.position)

\* start_line(box): the heap after the call
Instance_start_line(h, os, self, box) ==
    LET acc == Accumulator(os, self)
    IN  IF os[self].cls \in TextClasses
        THEN [h EXCEPT ![acc] = TextBuilder_start_line(@, box)]
        ELSE IF os[self].cls = "WordBoxBuilder"
        THEN h
        ELSE IF Len(h[acc]) > 0
                /\ LineBox_content(LineAt(h, h[acc][Len(h[acc])])) = <<>>
        THEN h
        ELSE \* LineBox([], box): the [] is a new list
             Append([h EXCEPT ![acc] =
                        Append(@, [word_boxes |-> Len(h) + 1,
                                   position |-> box])],
                    <<>>)

\* add_word(word, box): the heap after the call, and the exception raised
Instance_add_word(h, os, self, word, box) ==
    LET acc == Accumulator(os, self)
    IN  IF os[self].cls = "WordBoxBuilder"
        THEN [heap |-> [h EXCEPT ![acc] = Append(@, Box(word, box, 0))],
              raised |-> "none"]
        ELSE IF h[acc] = <<>>
        THEN [heap |-> h, raised |-> "IndexError"]
        ELSE IF os[self].cls \in TextClasses
        THEN [heap |-> [h EXCEPT ![acc] = TextBuilder_add_word(@, word, box, 0)],
              raised |-> "none"]
        ELSE [heap |-> [h EXCEPT ![h[acc][Len(h[acc])].word_boxes] =
                            Append(@, Box(word, box, 0))],
              raised |-> "none"]

\* get_output(): the value of what is returned
Instance_get_output(h, os, self) ==
    LET acc == h[Accumulator(os, self)]
    IN  IF os[self].cls \in TextClasses THEN JoinLines(acc)
        ELSE IF os[self].cls = "WordBoxBuilder" THEN acc
        ELSE [k \in 1..Len(acc) |-> LineAt(h, acc[k])]

\* the documents handed to read_file: hOCR for the box builders, plain text
\* for the text builders
InstanceDocuments == {"text", "hocr"}

TextDocument == <<" ", "a", " ", "b", "\n">>

HocrDocument == SpansEvents(<<PlainLine, PlainWord>>, 1)

\* the document a builder of the class is handed
DocumentFor(cls) == IF cls \in TextClasses THEN "text" ELSE "hocr"

\* read_file of each class on its document
TextBuilder_read == TextBuilder_read_file(TextDocument)

WordBoxBuilder_read == WordBoxBuilder_read_file(HocrDocument)

LineBoxBuilder_read == LineBoxBuilder_read_file(HocrDocument)

\* read_file(document) of the class of the instance
ReadFileOf(cls, document) ==
    IF cls \in TextClasses THEN TextBuilder_read
    ELSE IF cls = "WordBoxBuilder" THEN WordBoxBuilder_read
    ELSE LineBoxBuilder_read

\* what the call returns or raises, and the heap it leaves
Returning(h, r) == [heap |-> h, value |-> r.value, raised |-> r.raised]

\* read_file that keeps what it read in the accumulator of the instance
Instance_read_file_kept(h, os, self, document) ==
    LET r == ReadFileOf(os[self].cls, document)
        acc == Accumulator(os, self)
    IN  IF os[self].cls = "WordBoxBuilder"
        THEN [heap |-> [h EXCEPT ![acc] = @ \o r.value],
              value |-> h[acc] \o r.value, raised |-> r.raised]
        ELSE [heap |-> h, value |-> r.value, raised |-> r.raised]

\* read_file(document): the parsers and their lists are made by the call and
\* no attribute of self is read or written
Instance_read_file(h, os, self, document) ==
    Returning(h, ReadFileOf(os[self].cls, document))

\* write_file(file_descriptor, output): what is written to the file
WriteFileOf(cls, output) ==
    IF cls \in TextClasses THEN output
    ELSE IF cls = "WordBoxBuilder" THEN WordBoxBuilder_write_file(output)
    ELSE LineBoxBuilder_write_file(output)

\* values handed to the incremental interface of the instances
InstanceWords == {<<"a">>, <<"b">>}

InstanceLinePosition == << <<0, 0>>, <<9, 1>> >>

InitInstances ==
    /\ BoxIdle
    /\ BuilderIdle
    /\ FileIdle
    /\ ParseIdle
    /\ EngineIdle
    /\ heap = <<>>
    /\ objs = <<>>
    /\ trace = <<>>
    /\ out = None

\* the call made, what it returned (for write_file: what it wrote) and the
\* exception it raised
InstanceCalled(self, op, arg, value, raised) ==
    out' = [self |-> self, op |-> op, arg |-> arg, value |-> value,
            raised |-> raised]

Instance_construct_call ==
    \E cls \in InstanceClasses :
        /\ Len(objs) < Cardinality(InstanceNames)
        /\ LET made == Construct(heap, cls)
           IN  /\ heap' = made.heap
               /\ objs' = Append(objs, made.obj)
        /\ InstanceCalled(Len(objs) + 1, "__init__", cls, None, "none")
        /\ UNCHANGED <<trace, boxvars, buildervars, filevars, parsevars,
                       enginevars>>

Instance_start_line_call ==
    \E self \in 1..Len(objs) :
        /\ Len(trace) < MaxOps
        /\ heap' = Instance_start_line(heap, objs, self, InstanceLinePosition)
        /\ trace' = Append(trace, [self |-> self, op |-> "start_line",
                                   word |-> NoneText])
        /\ InstanceCalled(self, "start_line", InstanceLinePosition, None, "none")
        /\ UNCHANGED <<objs, boxvars, buildervars, filevars, parsevars,
                       enginevars>>

Instance_add_word_call ==
    \E self \in 1..Len(objs), word \in InstanceWords :
        /\ Len(trace) < MaxOps
        /\ LET r == Instance_add_word(heap, objs, self, word, WordPosition)
           IN  /\ heap' = r.heap
               /\ InstanceCalled(self, "add_word", word, None, r.raised)
        /\ trace' = Append(trace, [self |-> self, op |-> "add_word",
                                   word |-> word])
        /\ UNCHANGED <<objs, boxvars, buildervars, filevars, parsevars,
                       enginevars>>

Instance_end_line_call ==
    \E self \in 1..Len(objs) :
        /\ InstanceCalled(self, "end_line", None, None, "none")
        /\ UNCHANGED <<heap, objs, trace, boxvars, buildervars,
                       filevars, parsevars, enginevars>>

Instance_get_output_call ==
    \E self \in 1..Len(objs) :
        /\ InstanceCalled(self, "get_output", None,
                    Instance_get_output(heap, objs, self), "none")
        /\ UNCHANGED <<heap, objs, trace, boxvars, buildervars,
                       filevars, parsevars, enginevars>>

Instance_read_file_call ==
    \E self \in 1..Len(objs), d \in InstanceDocuments :
        \E r \in {Instance_read_file(heap, objs, self, d)} :
            /\ d = DocumentFor(objs[self].cls)
            /\ heap' = r.heap
            /\ InstanceCalled(self, "read_file", d, r.value, r.raised)
            /\ UNCHANGED <<objs, trace, boxvars, buildervars, filevars,
                           parsevars, enginevars>>

\* builder.write_file(file_descriptor, builder.get_output())
Instance_write_file_call ==
    \E self \in 1..Len(objs) :
        /\ InstanceCalled(self, "write_file", None,
                    WriteFileOf(objs[self].cls,
                                Instance_get_output(heap, objs, self)),
                    "none")
        /\ UNCHANGED <<heap, objs, trace, boxvars, buildervars,
                       filevars, parsevars, enginevars>>

NextInstances ==
    \/ Instance_construct_call
    \/ Instance_start_line_call
    \/ Instance_add_word_call
    \/ Instance_end_line_call
    \/ Instance_get_output_call
    \/ Instance_read_file_call
    \/ Instance_write_file_call

SpecInstances == InitInstances /\ [][NextInstances]_vars

(***************************************************************************)
(* Claims on the builder instances                                         *)
(***************************************************************************)
\* the step is a call of read_file or of write_file on an instance
ReadOrWriteStep == out' # out /\ out'.op \in {"read_file", "write_file"}

\* the values of the lists the four configuration attributes name
ConfigurationOf(h, os, self) ==
    [file_extensions |-> h[os[self].file_extensions],
     tesseract_flags |-> h[os[self].tesseract_flags],
     tesseract_configs |-> h[os[self].tesseract_configs],
     cuneiform_args |-> h[os[self].cuneiform_args]]

\* read_file of a newly constructed instance of the class on the document
ReadByNewInstance(cls, d) ==
    LET made == Construct(<<>>, cls)
    IN  Instance_read_file(made.heap, <<made.obj>>, 1, d)

\* C26: a call of read_file or write_file on an instance leaves its
\* accumulator (built_text, word_boxes, lines), its extensions, flags and
\* configuration tokens as they were, get_output() returns the same value
\* before and after the call, and read_file returns what read_file returns
\* on that document whenever it is called, so two calls on one document
\* return equal results.
C26_ReadAndWriteLeaveTheBuilder ==
    [][ReadOrWriteStep =>
          LET self == out'.self
          IN  /\ objs' = objs
              /\ heap'[Accumulator(objs, self)] = heap[Accumulator(objs, self)]
              /\ ConfigurationOf(heap', objs', self)
                     = ConfigurationOf(heap, objs, self)
              /\ Instance_get_output(heap', objs', self)
                     = Instance_get_output(heap, objs, self)
              /\ out'.op = "read_file" =>
                     LET alone == ReadByNewInstance(objs[self].cls, out'.arg)
                     IN  /\ out'.value = alone.value
                         /\ out'.raised = alone.raised]_vars

\* reached: read_file returned boxes on an instance that holds a word
C26_Witness ==
    /\ out # None /\ out.op = "read_file"
    /\ objs[out.self].cls = "WordBoxBuilder"
    /\ heap[Accumulator(objs, out.self)] # <<>>
    /\ out.value # <<>>

\* reached: write_file wrote the lines of an instance that holds a word
C26_WitnessWrite ==
    /\ out # None /\ out.op = "write_file"
    /\ objs[out.self].cls = "LineBoxBuilder"
    /\ Len(trace) = 2

\* the mutating calls made on one instance, in the order they were made
RECURSIVE OwnCalls(_, _)
OwnCalls(calls, self) ==
    IF calls = <<>> THEN <<>>
    ELSE IF Head(calls).self = self
    THEN <<Head(calls)>> \o OwnCalls(Tail(calls), self)
    ELSE OwnCalls(Tail(calls), self)

\* the heap after the calls are made, in order, on the instance os[1]
RECURSIVE RunAlone(_, _, _)
RunAlone(h, os, calls) ==
    IF calls = <<>> THEN h
    ELSE LET c == Head(calls)
             after == IF c.op = "start_line"
                      THEN Instance_start_line(h, os, 1, InstanceLinePosition)
                      ELSE Instance_add_word(h, os, 1, c.word,
                                             WordPosition).heap
         IN  RunAlone(after, os, Tail(calls))

\* the instance constructed alone and driven through its own calls
Alone(self) ==
    LET made == Construct(<<>>, objs[self].cls)
    IN  [heap |-> RunAlone(made.heap, <<made.obj>>, OwnCalls(trace, self)),
         objs |-> <<made.obj>>]

DigitClasses == {"DigitBuilder", "DigitLineBoxBuilder"}

\* C27: whatever the interleaving of the calls on two instances, the output
\* and the configuration of each instance are those of an instance of its
\* class constructed alone and driven through the calls made on it, what
\* get_output and read_file return is what they return on that instance,
\* and "digits" is among the configuration tokens of an instance exactly
\* when it is a DigitBuilder or a DigitLineBoxBuilder.
C27_InstancesShareNoState ==
    /\ \A self \in 1..Len(objs) :
          LET alone == Alone(self)
              output == Instance_get_output(alone.heap, alone.objs, 1)
          IN  /\ Instance_get_output(heap, objs, self) = output
              /\ ConfigurationOf(heap, objs, self)
                    = ConfigurationOf(alone.heap, alone.objs, 1)
              /\ "digits" \in Range(heap[objs[self].tesseract_configs])
                    <=> objs[self].cls \in DigitClasses
              /\ (out.op = "get_output" /\ out.self = self) =>
                    out.value = output
    /\ (out # None /\ out.op = "read_file") =>
          out.value = ReadByNewInstance(objs[out.self].cls, out.arg).value

\* no list is named by two attributes, of one instance or of two
C27_NoListIsShared ==
    LET attributes == {"file_extensions", "tesseract_flags",
                       "tesseract_configs", "cuneiform_args", "acc"}
        Named(i, a) ==
            CASE a = "file_extensions" -> objs[i].file_extensions
              [] a = "tesseract_flags" -> objs[i].tesseract_flags
              [] a = "tesseract_configs" -> objs[i].tesseract_configs
              [] a = "cuneiform_args" -> objs[i].cuneiform_args
              [] a = "acc" -> objs[i].acc
    IN  \A i, j \in 1..Len(objs) : \A a, b \in attributes :
            Named(i, a) = Named(j, b) => (i = j /\ a = b)

\* reached: the calls on a DigitBuilder and on a TextBuilder alternate, and
\* get_output of the DigitBuilder returns its word
C27_Witness ==
    /\ Len(objs) = 2
    /\ objs[1].cls = "DigitBuilder" /\ objs[2].cls = "TextBuilder"
    /\ Len(trace) = 3
    /\ trace[1].self = 1 /\ trace[2].self = 2 /\ trace[3].self = 1
    /\ out.op = "get_output" /\ out.self = 1 /\ out.value = <<"a">>

\* reached: two builders of one class, each holding its own word
C27_WitnessSameClass ==
    /\ Len(objs) = 2
    /\ objs[1].cls = "WordBoxBuilder" /\ objs[2].cls = "WordBoxBuilder"
    /\ Len(heap[objs[1].acc]) = 1 /\ Len(heap[objs[2].acc]) = 2

(***************************************************************************)
(* Claims on an engine process that ends with a non-zero status            *)
(***************************************************************************)
EngineFailed == run # None /\ run.engine_runs > 0 /\ run.status # 0

\* C28: when the engine process ends with a non-zero exit status,
\* tesseract.image_to_string raises TesseractError and
\* cuneiform.image_to_string raises CuneiformError; the call ends there,
\* no output file is tested or opened, read_file is not called and nothing
\* is returned, whatever files the engine left.
C28_EngineFailureRaisesBeforeRead ==
    EngineFailed =>
        /\ run.pc = "done"
        /\ run.raised = IF run.tool = "tesseract" THEN "TesseractError"
                        ELSE "CuneiformError"
        /\ run.tested_files = <<>>
        /\ run.opened = <<>>
        /\ run.result = None

\* reached: tesseract ended with a non-zero status and left a readable file
\* for the first extension of the builder
C28_Witness ==
    /\ EngineFailed
    /\ run.tool = "tesseract"
    /\ run.files[run.builder.file_extensions[1]] = "good"
    /\ run.raised = "TesseractError"

\* reached: cuneiform was ended by a signal and left a readable file
C28_WitnessCuneiform ==
    /\ EngineFailed
    /\ run.tool = "cuneiform"
    /\ run.status = -1
    /\ run.files[run.builder.file_extensions[1]] = "good"
    /\ run.raised = "CuneiformError"

(***************************************************************************)
(* Claims on add_word and on the text a TextBuilder returns                *)
(***************************************************************************)
\* the step is a call of add_word
AddWordStep == call'.op = "add_word" /\ ncalls' = ncalls + 1

\* self.lines or self.built_text
Accumulated(b) == IF b.kind = "LineBoxBuilder" THEN b.lines ELSE b.built_text

\* the last line after the word was appended to it
WordAppended(b, line_before, line_after, word, box) ==
    IF b.kind = "LineBoxBuilder"
    THEN /\ line_after.position = line_before.position
         /\ line_after.word_boxes =
               Append(line_before.word_boxes, Box(word, box, 0))
    ELSE \E separator \in {<<>>, <<" ">>} :
             line_after = line_before \o separator \o word

\* C29: on a LineBoxBuilder or a TextBuilder on which start_line was never
\* called, add_word raises and leaves the builder as it was; once start_line
\* was called, add_word returns, appends the word to the last line and
\* leaves the number of lines and every earlier line unchanged.
C29_AddWordNeedsAStartedLine ==
    [][AddWordStep =>
          IF started = <<>>
          THEN /\ ret' = [raised |-> "IndexError"]
               /\ builder' = builder
          ELSE LET before == Accumulated(builder)
                   after == Accumulated(builder')
                   n == Len(before)
               IN  /\ ret' = None
                   /\ n > 0
                   /\ Len(after) = n
                   /\ \A i \in 1..(n - 1) : after[i] = before[i]
                   /\ WordAppended(builder, before[n], after[n],
                                   call'.word, call'.box)]_vars

\* reached: add_word returned on a LineBoxBuilder that holds two lines, the
\* first with a word
C29_Witness ==
    /\ IsLineBoxBuilder
    /\ call # None /\ call.op = "add_word" /\ ret = None
    /\ Len(builder.lines) = 2
    /\ Len(builder.lines[1].word_boxes) = 1
    /\ Len(builder.lines[2].word_boxes) = 1

\* reached: add_word raised on a TextBuilder with no started line
C29_WitnessRaised ==
    /\ IsTextBuilder
    /\ call # None /\ call.op = "add_word"
    /\ ret = [raised |-> "IndexError"]
    /\ started = <<>> /\ builder.built_text = <<>>

\* u" ".join(words)
RECURSIVE JoinWords(_)
JoinWords(words) ==
    IF words = <<>> THEN <<>>
    ELSE IF Len(words) = 1 THEN words[1]
    ELSE words[1] \o <<" ">> \o JoinWords(Tail(words))

\* the lines started, each as its added words joined by single spaces
StartedLines == [i \in 1..Len(started) |-> JoinWords(started[i])]

TextIsStartedLines ==
    /\ Len(builder.built_text) = Len(started)
    /\ JoinLines(builder.built_text) = JoinLines(StartedLines)
    /\ (call # None /\ call.op = "get_output") =>
          ret.value = JoinLines(StartedLines)

\* C30 as claimed: after any start_line / add_word calls on a TextBuilder,
\* get_output() is the started lines in order joined by a newline, each
\* line its added words in order joined by single spaces, and there are as
\* many lines as start_line calls.
C30_OutputIsWordsJoined == IsTextBuilder => TextIsStartedLines

NoEmptyWordAdded ==
    \A i \in 1..Len(started) : \A j \in 1..Len(started[i]) :
        started[i][j] # <<>>

\* C30 as amended: the same, when no added word is the empty string.
C30_OutputIsNonEmptyWordsJoined ==
    (IsTextBuilder /\ NoEmptyWordAdded) => TextIsStartedLines

\* there are as many lines as start_line calls, empty words or not
C30_OneLinePerStartLine ==
    IsTextBuilder => Len(builder.built_text) = Len(started)

\* reached: get_output returned two lines, the first of two words and the
\* second with none
C30_Witness ==
    /\ IsTextBuilder
    /\ call # None /\ call.op = "get_output"
    /\ started = << <<S_a, <<"b">> >>, <<>> >>
    /\ ret.value = <<"a", " ", "b", "\n">>

(***************************************************************************)
(* Claims on the boxes WordBoxBuilder.read_file returns                    *)
(***************************************************************************)
\* the boxes of the parser read_file returns from: the first of the two
\* that holds a box, the second when neither does
ChosenBoxes(w, l) == IF Len(w.boxes) > 0 THEN w.boxes ELSE l.boxes

\* C31: WordBoxBuilder.read_file returns the boxes of the chosen parser in
\* parser order and unchanged, less the last one exactly when its content
\* is the empty string; when the Tesseract-dialect parser holds boxes and
\* the removal leaves none, the result is the empty list and the
\* character-position parser is not fed.
C31_OnlyEmptyLastBoxIsRemoved ==
    (read_w # None /\ read_w.raised = "none") =>
        LET w == WordParse
            chosen == ChosenBoxes(w, LineParse)
            value == read_w.value
            n == Len(chosen)
        IN  /\ Len(value) \in {n, n - 1}
            /\ \A i \in 1..Len(value) : value[i] = chosen[i]
            /\ Len(value) < n <=> (n > 0 /\ chosen[n].content = <<>>)
            /\ (Len(w.boxes) > 0 /\ value = <<>>) =>
                  read_w.fed = <<"_WordHTMLParser">>

\* reached: the only box of the Tesseract-dialect parser had an empty
\* content, the character-position parser would have found a box, and
\* read_file returned the empty list
C31_Witness ==
    /\ read_w # None /\ read_w.raised = "none"
    /\ Len(WordParse.boxes) = 1
    /\ WordParse.boxes[1].content = <<>>
    /\ LineParse.err = "none" /\ LineParse.boxes # <<>>
    /\ read_w.value = <<>>

\* reached: the last box was kept and an earlier box has an empty content
C31_WitnessEmptyKept ==
    /\ read_w # None /\ read_w.raised = "none"
    /\ Len(read_w.value) = 2
    /\ read_w.value[1].content = <<>>
    /\ read_w.value[2].content # <<>>

(***************************************************************************)
(* Claims on a coordinate element that holds too few values                *)
(***************************************************************************)
CoordsParsed == parse_in # None /\ parse_in.op = "coords" /\ parse_out # None

\* the words of the line: the tokens between single spaces that are not
\* empty
RECURSIVE NonEmptyTokens(_)
NonEmptyTokens(tokens) ==
    IF tokens = <<>> THEN <<>>
    ELSE IF Head(tokens) = <<>> THEN NonEmptyTokens(Tail(tokens))
    ELSE <<Head(tokens)>> \o NonEmptyTokens(Tail(tokens))

LineWordsOf(text) == NonEmptyTokens(Split(text, S_space))

\* the number of coordinate values the first k words need
RECURSIVE Needed(_, _)
Needed(words, k) ==
    IF k = 0 THEN 0 ELSE Needed(words, k - 1) + 4 * Len(words[k])

\* the box of word k over its own 4n of the values 1, 2, ...: the values
\* after those of the words before it
SliceBox(words, k) ==
    LET first == Needed(words, k - 1)
        last == Needed(words, k)
    IN  Box(words[k], << <<first + 1, first + 2>>, <<last - 1, last>> >>, 0)

\* every box emitted is the box of a word over its own 4n values
BoxesFromOwnCoordinates(words, have) ==
    \A k \in 1..Len(parse_out.boxes) :
        /\ k <= Len(words)
        /\ Needed(words, k) <= have
        /\ parse_out.boxes[k] = SliceBox(words, k)

\* fewer than 4n values remain for some word of length n
TooFewCoordinates(words, have) ==
    \E k \in 1..Len(words) : Needed(words, k) > have

\* C32 as claimed: when fewer than 4n coordinate values remain for a word
\* of length n the parse fails with an error; no Box is emitted from fewer
\* than 4n coordinates, and no coordinate value is used for two words.
C32_TooFewCoordinatesFail ==
    CoordsParsed =>
        LET words == LineWordsOf(parse_in.text)
        IN  /\ BoxesFromOwnCoordinates(words, parse_in.have)
            /\ TooFewCoordinates(words, parse_in.have) =>
                  parse_out.err # "none"

\* C32 as amended: the same when the coordinate element holds at least one
\* value; with no value and a title that ends with a space, the line is
\* skipped, no error is raised and no Box is emitted.
C32_TooFewButSomeCoordinatesFail ==
    CoordsParsed =>
        LET words == LineWordsOf(parse_in.text)
            have == parse_in.have
        IN  /\ BoxesFromOwnCoordinates(words, have)
            /\ (have > 0 /\ TooFewCoordinates(words, have)) =>
                  parse_out.err = "IndexError"
            /\ (have > 0 /\ ~TooFewCoordinates(words, have)) =>
                  /\ parse_out.err = "none"
                  /\ Len(parse_out.boxes) = Len(words)
            /\ (have = 0 /\ parse_in.trailing) =>
                  /\ parse_out.err = "none"
                  /\ parse_out.boxes = <<>>

\* reached: the values ran out in the second word, after the first word
\* gave its box, and the parse failed
C32_Witness ==
    /\ CoordsParsed
    /\ parse_in.text = <<"a", " ", "b">>
    /\ parse_in.have = 5
    /\ parse_out.err = "IndexError"
    /\ Len(parse_out.boxes) = 1

\* reached: a line with a word and no coordinate value was skipped
C32_WitnessSkipped ==
    /\ CoordsParsed
    /\ parse_in.text = <<"a">>
    /\ parse_in.have = 0
    /\ parse_out.err = "none"
    /\ parse_out.boxes = <<>>

(***************************************************************************)
(* Claims on the box file of CharBoxBuilder                                *)
(***************************************************************************)
CharWritten == written # None /\ written.builder = "CharBoxBuilder"

\* a single token: at least one character, none of them white space
IsToken(content) ==
    /\ content # <<>>
    /\ \A i \in 1..Len(content) : content[i] \notin Whitespace

AllTokens(boxes) == \A i \in 1..Len(boxes) : IsToken(boxes[i].content)

\* the fields of a line of the file
FieldsOf(line) == Split(Strip(line), S_space)

\* the lines of the file read_file does not skip
RECURSIVE LinesKept(_)
LinesKept(lines) ==
    IF lines = <<>> THEN <<>>
    ELSE IF Strip(Head(lines)) = <<>> \/ Len(FieldsOf(Head(lines))) < 6
    THEN LinesKept(Tail(lines))
    ELSE <<Head(lines)>> \o LinesKept(Tail(lines))

\* fields 2 to 5 of the line are integers
WellFormed(line) == \A i \in 2..5 : ParseInt(FieldsOf(line)[i]).ok

\* the boxes read are the written ones but for their confidence
ReadBackBoxes(value, boxes) ==
    /\ Len(value) = Len(boxes)
    /\ \A i \in 1..Len(boxes) :
          /\ value[i].content = boxes[i].content
          /\ value[i].position = boxes[i].position
          /\ value[i].confidence = 0

\* the content holds no space character; the empty content holds none
NoSpace(boxes) ==
    \A i \in 1..Len(boxes) :
        \A j \in 1..Len(boxes[i].content) : boxes[i].content[j] # " "

C33_WitnessSkipped ==
    /\ CharWritten
    /\ Len(written.output) = 2
    /\ written.output[1].content = <<>>
    /\ read_c # None
    /\ read_c.raised = "none"
    /\ Len(read_c.value) = 1
    /\ read_c.value[1].content = written.output[2].content

\* reached: a blank line and a line of 2 fields in the file of an engine
\* were skipped
C33_WitnessBlank ==
    /\ written = None
    /\ plain = S_newline \o S_ab_c \o S_newline
    /\ read_c # None
    /\ read_c.raised = "none"
    /\ read_c.value = <<>>

=============================================================================
